---------------------------- MODULE Spec2Model ----------------------------
(***************************************************************************)
(* The block validator of weavelang (llm_output_validator.py) as a state   *)
(* machine.  A text is a sequence of one-character strings; a line is a    *)
(* text without line breaks.  validate_llm_block runs phase by phase: each *)
(* phase of the function is one action, the program counter pc names the   *)
(* phase that runs next, and errors is the list the function returns.      *)
(* The callers of the validator follow it: the two functions that ask the  *)
(* LLM for a block per sentence (SentenceSpec) and the runs of the script  *)
(* on one book with its output file (BookSpec).                            *)
(***************************************************************************)
EXTENDS Integers, Sequences, FiniteSets, TLC

(***************************************************************************)
(* Characters and the str methods the validator uses.                      *)
(***************************************************************************)
WhitespaceChars == {" ", "\t"}
LineBreakChars == {"\n", "\r"}
DigitChars == {"0", "1", "2", "3", "4", "5", "6", "7", "8", "9"}
AsciiLetters ==
  {"A","B","C","D","E","F","G","H","I","J","K","L","M",
   "N","O","P","Q","R","S","T","U","V","W","X","Y","Z",
   "a","b","c","d","e","f","g","h","i","j","k","l","m",
   "n","o","p","q","r","s","t","u","v","w","x","y","z"}

SpaceChars == WhitespaceChars \cup LineBreakChars
IsSpace(c) == c \in SpaceChars
IsDigit(c) == c \in DigitChars

MinOf(S) == CHOOSE x \in S : \A y \in S : x <= y
MaxOf(S) == CHOOSE x \in S : \A y \in S : x >= y

\* s[:n]
Take(s, n) == SubSeq(s, 1, IF Len(s) < n THEN Len(s) ELSE n)
\* s[n:] with n counted from 0
Drop(s, n) == SubSeq(s, n + 1, Len(s))

\* str.strip()
Strip(s) ==
  LET ns == {i \in 1..Len(s) : ~IsSpace(s[i])}
  IN  IF ns = {} THEN <<>> ELSE SubSeq(s, MinOf(ns), MaxOf(ns))

\* str.startswith(p)
StartsWith(s, p) == Len(s) >= Len(p) /\ SubSeq(s, 1, Len(p)) = p

\* p in s
Contains(s, p) ==
  \E i \in 1..(Len(s) - Len(p) + 1) : SubSeq(s, i, i + Len(p) - 1) = p

\* str.splitlines(): a line ends at "\n", at "\r" or at "\r\n"; a text that ends
\* with a line break has no empty last line.
RECURSIVE splitlines(_)
splitlines(text) ==
  IF text = <<>> THEN <<>>
  ELSE LET brk == {i \in 1..Len(text) : text[i] \in LineBreakChars}
       IN  IF brk = {} THEN <<text>>
           ELSE LET i == MinOf(brk)
                    n == IF text[i] = "\r" /\ i < Len(text) /\ text[i+1] = "\n"
                         THEN i + 1 ELSE i
                IN  <<SubSeq(text, 1, i - 1)>> \o splitlines(Drop(text, n))

\* str.split(sep) for a one-character sep: the pieces between the separators,
\* empty ones kept.
RECURSIVE SplitOn(_, _)
SplitOn(s, sep) ==
  LET at == {i \in 1..Len(s) : s[i] = sep}
  IN  IF at = {} THEN <<s>>
      ELSE <<SubSeq(s, 1, MinOf(at) - 1)>> \o SplitOn(Drop(s, MinOf(at)), sep)

\* str.count(sep) for a one-character sep
CountOf(s, sep) == Cardinality({i \in 1..Len(s) : s[i] = sep})

\* str.split(): the maximal runs of non-whitespace characters
RECURSIVE SplitWhitespace(_)
SplitWhitespace(s) ==
  LET t == Strip(s)
      sp == {i \in 1..Len(t) : IsSpace(t[i])}
  IN  IF t = <<>> THEN <<>>
      ELSE IF sp = {} THEN <<t>>
      ELSE <<SubSeq(t, 1, MinOf(sp) - 1)>> \o SplitWhitespace(Drop(t, MinOf(sp)))

\* str(n) for n >= 0
RECURSIVE Decimal(_)
Decimal(n) ==
  LET d == <<"0", "1", "2", "3", "4", "5", "6", "7", "8", "9">>
  IN  IF n < 10 THEN <<d[n + 1]>> ELSE Decimal(n \div 10) \o <<d[(n % 10) + 1]>>

\* The last index of the maximal run of characters of class cls that starts at
\* index from (from - 1 when s[from] is not in cls).
RunEnd(s, from, cls) ==
  LET stop == {i \in from..Len(s) : s[i] \notin cls}
  IN  IF stop = {} THEN Len(s) ELSE MinOf(stop) - 1

(***************************************************************************)
(* The regular expressions.  Each matcher returns a record: ok, and the    *)
(* groups of the match (empty when ok is FALSE).  The lines they are       *)
(* applied to are stripped and hold no line break.                         *)
(***************************************************************************)

\* ^(S\d+)\((.*)\)$ : "S", the maximal run of digits (at least one), "(" right
\* after it, and ")" as the last character of the line.
RE_S_SEGMENT_LINE(line) ==
  LET d == RunEnd(line, 2, DigitChars)
      ok == /\ Len(line) >= 1 /\ line[1] = "S"
            /\ d >= 2
            /\ Len(line) >= d + 2
            /\ line[d + 1] = "("
            /\ line[Len(line)] = ")"
  IN  [ok |-> ok,
       s_id |-> IF ok THEN SubSeq(line, 1, d) ELSE <<>>,
       s_content |-> IF ok THEN SubSeq(line, d + 2, Len(line) - 1) ELSE <<>>]

\* ^(S\d+)\s*~\s*(.*?)\s*~\s*(.*)$ : the first span is lazy, so it ends before
\* the whitespace that precedes the next "~"; the second span is the rest.
RE_PHRASE_ALIGN_LINE(line) ==
  LET d == RunEnd(line, 2, DigitChars)
      t1 == RunEnd(line, d + 1, WhitespaceChars) + 1
      q == RunEnd(line, t1 + 1, WhitespaceChars) + 1
      tildes == {t \in q..Len(line) : line[t] = "~"}
      ok == /\ Len(line) >= 1 /\ line[1] = "S"
            /\ d >= 2
            /\ t1 <= Len(line) /\ line[t1] = "~"
            /\ tildes # {}
      t2 == MinOf(tildes)
      e1 == MinOf({e \in q..t2 : \A j \in e..(t2 - 1) : line[j] \in WhitespaceChars})
      q2 == RunEnd(line, t2 + 1, WhitespaceChars) + 1
  IN  [ok |-> ok,
       s_id |-> IF ok THEN SubSeq(line, 1, d) ELSE <<>>,
       span1 |-> IF ok THEN SubSeq(line, q, e1 - 1) ELSE <<>>,
       span2 |-> IF ok THEN SubSeq(line, q2, Len(line)) ELSE <<>>]

\* ^(S\d+)\s*::\s*(.*)$ : the header of a SimSL line and of a DIGLOT_MAP line.
RE_S_LEMMA_LINE(line) ==
  LET d == RunEnd(line, 2, DigitChars)
      c1 == RunEnd(line, d + 1, WhitespaceChars) + 1
      ok == /\ Len(line) >= 1 /\ line[1] = "S"
            /\ d >= 2
            /\ c1 + 1 <= Len(line) /\ line[c1] = ":" /\ line[c1 + 1] = ":"
      r == RunEnd(line, c1 + 2, WhitespaceChars) + 1
  IN  [ok |-> ok,
       s_id |-> IF ok THEN SubSeq(line, 1, d) ELSE <<>>,
       rest |-> IF ok THEN SubSeq(line, r, Len(line)) ELSE <<>>]

\* ^(.*?)->(.*?)\((.*?)\)\s*\(([A-Za-z])\)$ : the entry ends with "(", one
\* letter, ")"; before that, after optional whitespace, stands the ")" that
\* closes the form; the lazy groups take the first "->" and the first "("
\* after it.
RE_DIGLOT_ENTRY(e) ==
  LET n == Len(e)
      tail == /\ n >= 3 /\ e[n] = ")" /\ e[n - 1] \in AsciiLetters /\ e[n - 2] = "("
      ns == {i \in 1..(n - 3) : e[i] \notin WhitespaceChars}
      c == IF ns = {} THEN 0 ELSE MaxOf(ns)
      arrows == {a \in 1..(n - 1) : e[a] = "-" /\ e[a + 1] = ">"}
      a == IF arrows = {} THEN 0 ELSE MinOf(arrows)
      opens == {b \in (a + 2)..(c - 1) : e[b] = "("}
      ok == /\ tail
            /\ c >= 1 /\ e[c] = ")"
            /\ arrows # {}
            /\ opens # {}
      b == MinOf(opens)
  IN  [ok |-> ok,
       eng |-> IF ok THEN SubSeq(e, 1, a - 1) ELSE <<>>,
       spa_lemma |-> IF ok THEN SubSeq(e, a + 2, b - 1) ELSE <<>>,
       form |-> IF ok THEN SubSeq(e, b + 1, c - 1) ELSE <<>>,
       viability_char |-> IF ok THEN e[n - 1] ELSE ""]

\* ^S\d+$
RE_S_ID_FORMAT(tok) ==
  /\ Len(tok) >= 2 /\ tok[1] = "S"
  /\ \A i \in 2..Len(tok) : IsDigit(tok[i])

(***************************************************************************)
(* The section markers.                                                    *)
(***************************************************************************)
M_AdvS == <<"A","d","v","S",":",":">>
M_SimS == <<"S","i","m","S",":",":">>
M_SimE == <<"S","i","m","E",":",":">>
M_SimS_Segments == <<"S","i","m","S","_","S","e","g","m","e","n","t","s",":",":">>
M_PHRASE_ALIGN == <<"P","H","R","A","S","E","_","A","L","I","G","N",":",":">>
M_SimSL == <<"S","i","m","S","L",":",":">>
M_AdvSL == <<"A","d","v","S","L",":",":">>
M_DIGLOT_MAP == <<"D","I","G","L","O","T","_","M","A","P",":",":">>
M_LOCKED_PHRASE == <<"L","O","C","K","E","D","_","P","H","R","A","S","E",":",":">>
T_END_SENTENCE == <<"E","N","D","_","S","E","N","T","E","N","C","E">>

REQUIRED_SECTION_MARKERS ==
  <<M_AdvS, M_SimS, M_SimE, M_SimS_Segments, M_PHRASE_ALIGN, M_SimSL,
    M_AdvSL, M_DIGLOT_MAP>>
OPTIONAL_SECTION_MARKERS == <<M_LOCKED_PHRASE>>
ALL_POSSIBLE_MARKERS == REQUIRED_SECTION_MARKERS \o OPTIONAL_SECTION_MARKERS

Range(f) == {f[i] : i \in DOMAIN f}

\* get_section_content where a blank line ends the section.
get_section_content_blank_ends(original_block_lines, start_marker, all_known_markers) ==
  LET n == Len(original_block_lines)
      stripped == <<>> \o [i \in 1..n |-> Strip(original_block_lines[i])]
      starts == {i \in 0..(n - 1) : StartsWith(stripped[i + 1], start_marker)}
      start_line_idx == IF starts = {} THEN -1 ELSE MinOf(starts)
      nexts == {i \in (start_line_idx + 1)..(n - 1) :
                  \/ stripped[i + 1] = <<>>
                  \/ \E m \in Range(all_known_markers) : StartsWith(stripped[i + 1], m)}
      end_line_idx_for_content == IF nexts = {} THEN n ELSE MinOf(nexts)
      content_on_marker_line ==
        Strip(Drop(stripped[start_line_idx + 1], Len(start_marker)))
      first == IF content_on_marker_line # <<>>
               THEN <<content_on_marker_line>> ELSE <<>>
      follow == SubSeq(stripped, start_line_idx + 2, end_line_idx_for_content)
  IN  IF start_line_idx = -1
      THEN [found |-> FALSE, content |-> <<>>, idx |-> -1]
      ELSE [found |-> TRUE, content |-> first \o follow, idx |-> start_line_idx]

\* get_section_content that appends the lines after the marker line as they
\* are (line 63 without strip()).
get_section_content_lines_as_they_are(original_block_lines, start_marker, all_known_markers) ==
  LET n == Len(original_block_lines)
      stripped == <<>> \o [i \in 1..n |-> Strip(original_block_lines[i])]
      starts == {i \in 0..(n - 1) : StartsWith(stripped[i + 1], start_marker)}
      start_line_idx == IF starts = {} THEN -1 ELSE MinOf(starts)
      nexts == {i \in (start_line_idx + 1)..(n - 1) :
                  \E m \in Range(all_known_markers) : StartsWith(stripped[i + 1], m)}
      end_line_idx_for_content == IF nexts = {} THEN n ELSE MinOf(nexts)
      content_on_marker_line ==
        Strip(Drop(stripped[start_line_idx + 1], Len(start_marker)))
      first == IF content_on_marker_line # <<>>
               THEN <<content_on_marker_line>> ELSE <<>>
      follow == SelectSeq(
                  SubSeq(original_block_lines, start_line_idx + 2,
                         end_line_idx_for_content),
                  LAMBDA l : Strip(l) # <<>>)
  IN  IF start_line_idx = -1
      THEN [found |-> FALSE, content |-> <<>>, idx |-> -1]
      ELSE [found |-> TRUE, content |-> first \o follow, idx |-> start_line_idx]

\* get_section_content that looks for the marker at the start of the line as
\* it is (line 36 without strip()).
get_section_content_marker_at_column_0(original_block_lines, start_marker, all_known_markers) ==
  LET n == Len(original_block_lines)
      stripped == <<>> \o [i \in 1..n |-> Strip(original_block_lines[i])]
      starts == {i \in 0..(n - 1) :
                   StartsWith(original_block_lines[i + 1], start_marker)}
      start_line_idx == IF starts = {} THEN -1 ELSE MinOf(starts)
      nexts == {i \in (start_line_idx + 1)..(n - 1) :
                  \E m \in Range(all_known_markers) : StartsWith(stripped[i + 1], m)}
      end_line_idx_for_content == IF nexts = {} THEN n ELSE MinOf(nexts)
      content_on_marker_line ==
        Strip(Drop(stripped[start_line_idx + 1], Len(start_marker)))
      first == IF content_on_marker_line # <<>>
               THEN <<content_on_marker_line>> ELSE <<>>
      follow == SelectSeq(
                  SubSeq(stripped, start_line_idx + 2, end_line_idx_for_content),
                  LAMBDA l : l # <<>>)
  IN  IF start_line_idx = -1
      THEN [found |-> FALSE, content |-> <<>>, idx |-> -1]
      ELSE [found |-> TRUE, content |-> first \o follow, idx |-> start_line_idx]

(***************************************************************************)
(* get_section_content.  Line indices are the code's: counted from 0.      *)
(* found = FALSE stands for (None, None).                                  *)
(***************************************************************************)
get_section_content(original_block_lines, start_marker, all_known_markers) ==
  LET n == Len(original_block_lines)
      stripped == <<>> \o [i \in 1..n |-> Strip(original_block_lines[i])]
      starts == {i \in 0..(n - 1) : StartsWith(stripped[i + 1], start_marker)}
      start_line_idx == IF starts = {} THEN -1 ELSE MinOf(starts)
      nexts == {i \in (start_line_idx + 1)..(n - 1) :
                  \E m \in Range(all_known_markers) : StartsWith(stripped[i + 1], m)}
      end_line_idx_for_content == IF nexts = {} THEN n ELSE MinOf(nexts)
      marker_line_itself_stripped == stripped[start_line_idx + 1]
      content_on_marker_line ==
        Strip(Drop(marker_line_itself_stripped, Len(start_marker)))
      first == IF Len(marker_line_itself_stripped) > Len(start_marker)
                  /\ content_on_marker_line # <<>>
               THEN <<content_on_marker_line>> ELSE <<>>
      follow == SelectSeq(
                  SubSeq(stripped, start_line_idx + 2, end_line_idx_for_content),
                  LAMBDA l : l # <<>>)
  IN  IF start_line_idx = -1
      THEN [found |-> FALSE, content |-> <<>>, idx |-> -1]
      ELSE [found |-> TRUE, content |-> first \o follow, idx |-> start_line_idx]

(***************************************************************************)
(* Errors.  The code returns formatted strings; an error of the model is   *)
(* the message's template (msg) with the values the f-string puts in it,   *)
(* and the phase that appended it:                                         *)
(* 0 emptiness and END_SENTENCE, 1 the marker scan and the order check,    *)
(* 2 SimS_Segments, 3 PHRASE_ALIGN, 4 SimSL, 5 AdvSL, 6 DIGLOT_MAP,        *)
(* 7 LOCKED_PHRASE.                                                        *)
(***************************************************************************)
Err(phase, msg) ==
  [phase |-> phase, msg |-> msg, marker |-> <<>>, other |-> <<>>, s_id |-> <<>>,
   n1 |-> 0, n2 |-> 0, text |-> <<>>, found |-> <<>>, expected |-> <<>>]

RECURSIVE Flatten(_)
Flatten(ss) == IF ss = <<>> THEN <<>> ELSE Head(ss) \o Flatten(Tail(ss))

When(cond, errs) == IF cond THEN errs ELSE <<>>

(***************************************************************************)
(* Phase 0: lines 76-86.                                                   *)
(***************************************************************************)
\* The lines that are not empty, taken without the strip: a line of blanks
\* counts as text.
NonEmptyLines(lines) == SelectSeq(lines, LAMBDA l : l # <<>>)

stripped_lines_for_initial_checks(lines) ==
  SelectSeq([i \in 1..Len(lines) |-> Strip(lines[i])], LAMBDA l : l # <<>>)

\* The END_SENTENCE test with startswith in place of "in".
HasEndSentenceAtStart(lines) ==
  \E l \in Range(stripped_lines_for_initial_checks(lines)) :
     StartsWith(l, T_END_SENTENCE)

HasEndSentence(lines) ==
  \E l \in Range(stripped_lines_for_initial_checks(lines)) :
     Contains(l, T_END_SENTENCE)

(***************************************************************************)
(* Phase 1, the marker scan: lines 88-112.  Every catalog entry is scanned *)
(* once and the entries differ, so when the loop over the lines starts     *)
(* the marker is not in marker_indices: its first line is recorded and     *)
(* each later line that starts with it appends a duplicate error.          *)
(***************************************************************************)
\* for each marker of the catalogs, the lines it starts
AllMarkerLines(lines) ==
  LET stripped == <<>> \o [i \in 1..Len(lines) |-> Strip(lines[i])]
  IN  [m \in Range(ALL_POSSIBLE_MARKERS) |->
         {i \in 0..(Len(lines) - 1) : StartsWith(stripped[i + 1], m)}]

\* The duplicate errors with the line indices as enumerate gives them (from 0).
DuplicateErrorsZeroBased(marker, dupmsg, occ) ==
  LET first == MinOf(occ)
  IN  IF Cardinality(occ) < 2 THEN <<>>
      ELSE Flatten([j \in 1..(MaxOf(occ) + 1) |->
             When((j - 1) \in occ /\ (j - 1) # first,
               <<[Err(1, dupmsg) EXCEPT !.marker = marker,
                                        !.n1 = first,
                                        !.n2 = j - 1]>>)])

\* lines 92-98 and 106-111: the duplicate errors of one marker, in line order;
\* occ holds the lines the marker starts
DuplicateErrors(marker, dupmsg, occ) ==
  LET first == MinOf(occ)
  IN  IF Cardinality(occ) < 2 THEN <<>>
      ELSE Flatten([j \in 1..(MaxOf(occ) + 1) |->
             When((j - 1) \in occ /\ (j - 1) # first,
               <<[Err(1, dupmsg) EXCEPT !.marker = marker,
                                        !.n1 = first + 1,
                                        !.n2 = j]>>)])

\* One required marker, without the check of line 102.
ScanRequiredMarkerDuplicatesOnly(marker, occ) ==
  DuplicateErrors(marker, "Duplicate required section marker", occ)

\* lines 90-103: one required marker
ScanRequiredMarker(marker, occ) ==
  DuplicateErrors(marker, "Duplicate required section marker", occ)
  \o When(occ = {},
       <<[Err(1, "Missing required section marker") EXCEPT !.marker = marker]>>)

\* lines 105-111: one optional marker
ScanOptionalMarker(marker, occ) ==
  DuplicateErrors(marker, "Duplicate optional section marker", occ)

\* marker_indices after both loops
MarkerIndices(occs) ==
  [m \in {x \in DOMAIN occs : occs[x] # {}} |-> MinOf(occs[m])]

\* the scan state after both loops: marker_indices (mi) and errors (errs)
ScanAllMarkers(lines, errs) ==
  LET occs == AllMarkerLines(lines)
  IN  [mi |-> MarkerIndices(occs),
       errs |-> errs
                \o Flatten([k \in 1..Len(REQUIRED_SECTION_MARKERS) |->
                     ScanRequiredMarker(REQUIRED_SECTION_MARKERS[k],
                                        occs[REQUIRED_SECTION_MARKERS[k]])])
                \o Flatten([k \in 1..Len(OPTIONAL_SECTION_MARKERS) |->
                     ScanOptionalMarker(OPTIONAL_SECTION_MARKERS[k],
                                        occs[OPTIONAL_SECTION_MARKERS[k]])])]

(***************************************************************************)
(* Phase 1, the order check: lines 116-122.  last_idx before marker i is   *)
(* the index of marker i-1 (-1 before the first); the message names        *)
(* REQUIRED_SECTION_MARKERS[i-1], which for i = 0 is Python's [-1], the    *)
(* last marker.                                                            *)
(***************************************************************************)
\* The order check with last_idx as the largest index met so far.
OrderErrorsRunningMax(mi) ==
  LET n == Len(REQUIRED_SECTION_MARKERS)
      last_idx(i) == IF i = 1 THEN -1
                     ELSE MaxOf({mi[REQUIRED_SECTION_MARKERS[j]] : j \in 1..(i - 1)})
      prev(i) == REQUIRED_SECTION_MARKERS[IF i = 1 THEN n ELSE i - 1]
  IN  Flatten([i \in 1..n |->
        When(mi[REQUIRED_SECTION_MARKERS[i]] < last_idx(i),
          <<[Err(1, "appears out of expected order relative to")
               EXCEPT !.marker = REQUIRED_SECTION_MARKERS[i],
                      !.n1 = mi[REQUIRED_SECTION_MARKERS[i]] + 1,
                      !.other = prev(i)]>>)])

OrderErrors(mi) ==
  LET n == Len(REQUIRED_SECTION_MARKERS)
      last_idx(i) == IF i = 1 THEN -1 ELSE mi[REQUIRED_SECTION_MARKERS[i - 1]]
      prev(i) == REQUIRED_SECTION_MARKERS[IF i = 1 THEN n ELSE i - 1]
  IN  Flatten([i \in 1..n |->
        LET marker_in_order == REQUIRED_SECTION_MARKERS[i]
            current_marker_actual_idx == mi[marker_in_order]
        IN  When(current_marker_actual_idx < last_idx(i),
              <<[Err(1, "appears out of expected order relative to")
                   EXCEPT !.marker = marker_in_order,
                          !.n1 = current_marker_actual_idx + 1,
                          !.other = prev(i)]>>)])

(***************************************************************************)
(* Phase 2, SimS_Segments: lines 127-147.  The result holds the errors of  *)
(* the phase, s_segment_ids_ordered and s_segment_ids_set.                 *)
(***************************************************************************)
SegmentId(j) == <<"S">> \o Decimal(j)

\* ms[j] is the match of content line j.  The IDs of the matching lines before
\* line i: what a loop over the lines has put in its set when it reaches line i.
SeenBefore(ms, i) == {ms[j].s_id : j \in {h \in 1..(i - 1) : ms[h].ok}}

\* The loop over the segment lines without the duplicate test of line 143.
SimSSegmentsLinesNoDuplicateCheck(content_lines, ms) ==
  LET lineErrs(i) ==
        IF ~ms[i].ok
        THEN <<[Err(2, "SimS_Segments:: Line invalid format")
                  EXCEPT !.n1 = i, !.text = Take(content_lines[i], 40)]>>
        ELSE When(ms[i].s_content = <<>>,
               <<[Err(2, "SimS_Segments:: Segment has no content in parentheses")
                    EXCEPT !.s_id = ms[i].s_id]>>)
      matched == SelectSeq(ms, LAMBDA m : m.ok)
      s_segment_ids_ordered == [i \in 1..Len(matched) |-> matched[i].s_id]
      expected_s_ids == [j \in 1..Len(matched) |-> SegmentId(j)]
  IN  [errs |-> Flatten([i \in 1..Len(content_lines) |-> lineErrs(i)])
                \o When(s_segment_ids_ordered # expected_s_ids,
                     <<[Err(2, "SimS_Segments:: IDs not sequential")
                          EXCEPT !.found = s_segment_ids_ordered,
                                 !.expected = expected_s_ids]>>),
       ordered |-> s_segment_ids_ordered,
       set |-> Range(s_segment_ids_ordered)]

\* The loop over the segment lines where a repeated ID is not appended to
\* s_segment_ids_ordered (line 144 under an else of line 143).
SimSSegmentsLinesRepeatNotKept(content_lines, ms) ==
  LET lineErrs(i) ==
        IF ~ms[i].ok
        THEN <<[Err(2, "SimS_Segments:: Line invalid format")
                  EXCEPT !.n1 = i, !.text = Take(content_lines[i], 40)]>>
        ELSE When(ms[i].s_content = <<>>,
               <<[Err(2, "SimS_Segments:: Segment has no content in parentheses")
                    EXCEPT !.s_id = ms[i].s_id]>>)
             \o When(ms[i].s_id \in SeenBefore(ms, i),
               <<[Err(2, "SimS_Segments:: Duplicate segment ID")
                    EXCEPT !.s_id = ms[i].s_id]>>)
      kept == {i \in 1..Len(ms) : ms[i].ok /\ ms[i].s_id \notin SeenBefore(ms, i)}
      s_segment_ids_ordered ==
        [r \in 1..Cardinality(kept) |->
           ms[CHOOSE i \in kept : Cardinality({h \in kept : h <= i}) = r].s_id]
      expected_s_ids == [j \in 1..Cardinality(kept) |-> SegmentId(j)]
  IN  [errs |-> Flatten([i \in 1..Len(content_lines) |-> lineErrs(i)])
                \o When(s_segment_ids_ordered # expected_s_ids,
                     <<[Err(2, "SimS_Segments:: IDs not sequential")
                          EXCEPT !.found = s_segment_ids_ordered,
                                 !.expected = expected_s_ids]>>),
       ordered |-> s_segment_ids_ordered,
       set |-> Range(s_segment_ids_ordered)]

\* lines 134-147: the loop over the content lines and the sequence check
SimSSegmentsLines(content_lines, ms) ==
  LET lineErrs(i) ==
        IF ~ms[i].ok
        THEN <<[Err(2, "SimS_Segments:: Line invalid format")
                  EXCEPT !.n1 = i, !.text = Take(content_lines[i], 40)]>>
        ELSE When(ms[i].s_content = <<>>,
               <<[Err(2, "SimS_Segments:: Segment has no content in parentheses")
                    EXCEPT !.s_id = ms[i].s_id]>>)
             \o When(ms[i].s_id \in SeenBefore(ms, i),
               <<[Err(2, "SimS_Segments:: Duplicate segment ID")
                    EXCEPT !.s_id = ms[i].s_id]>>)
      matched == SelectSeq(ms, LAMBDA m : m.ok)
      s_segment_ids_ordered == [i \in 1..Len(matched) |-> matched[i].s_id]
      expected_s_ids == [j \in 1..Len(matched) |-> SegmentId(j)]
  IN  [errs |-> Flatten([i \in 1..Len(content_lines) |-> lineErrs(i)])
                \o When(s_segment_ids_ordered # expected_s_ids,
                     <<[Err(2, "SimS_Segments:: IDs not sequential")
                          EXCEPT !.found = s_segment_ids_ordered,
                                 !.expected = expected_s_ids]>>),
       ordered |-> s_segment_ids_ordered,
       set |-> Range(s_segment_ids_ordered)]

\* lines 129-147, for the section that get_section_content returned
SimSSegmentsSection(sec) ==
  IF ~sec.found
  THEN [errs |-> <<Err(2, "SimS_Segments:: marker found but content extraction failed")>>,
        ordered |-> <<>>, set |-> {}]
  ELSE IF sec.content = <<>>
  THEN [errs |-> <<Err(2, "SimS_Segments:: section is present but has no segment definition lines")>>,
        ordered |-> <<>>, set |-> {}]
  ELSE SimSSegmentsLines(sec.content,
         <<>> \o [i \in 1..Len(sec.content) |-> RE_S_SEGMENT_LINE(sec.content[i])])

SimSSegmentsPhase(lines) ==
  SimSSegmentsSection(
    get_section_content(lines, M_SimS_Segments, ALL_POSSIBLE_MARKERS))

(***************************************************************************)
(* Phase 3, PHRASE_ALIGN: lines 149-164.                                   *)
(***************************************************************************)
\* One PHRASE_ALIGN line without the membership test of line 162.
PhraseAlignLineAnyId(i, line, m, s_ids) ==
  IF ~m.ok
  THEN <<[Err(3, "PHRASE_ALIGN:: Line invalid format")
            EXCEPT !.n1 = i, !.text = Take(line, 40)]>>
  ELSE When(Strip(m.span1) = <<>>,
         <<[Err(3, "PHRASE_ALIGN:: Line has empty first span")
              EXCEPT !.n1 = i, !.s_id = m.s_id]>>)
       \o When(Strip(m.span2) = <<>>,
         <<[Err(3, "PHRASE_ALIGN:: Line has empty second span")
              EXCEPT !.n1 = i, !.s_id = m.s_id]>>)

\* One PHRASE_ALIGN line with the three tests of lines 162-164 chained by elif.
PhraseAlignLineFirstErrorOnly(i, line, m, s_ids) ==
  IF ~m.ok
  THEN <<[Err(3, "PHRASE_ALIGN:: Line invalid format")
            EXCEPT !.n1 = i, !.text = Take(line, 40)]>>
  ELSE IF m.s_id \notin s_ids
  THEN <<[Err(3, "PHRASE_ALIGN:: Line uses unknown segment ID")
            EXCEPT !.n1 = i, !.s_id = m.s_id]>>
  ELSE IF Strip(m.span1) = <<>>
  THEN <<[Err(3, "PHRASE_ALIGN:: Line has empty first span")
            EXCEPT !.n1 = i, !.s_id = m.s_id]>>
  ELSE When(Strip(m.span2) = <<>>,
         <<[Err(3, "PHRASE_ALIGN:: Line has empty second span")
              EXCEPT !.n1 = i, !.s_id = m.s_id]>>)

\* lines 157-164: one content line, m its match
PhraseAlignLine(i, line, m, s_ids) ==
  IF ~m.ok
  THEN <<[Err(3, "PHRASE_ALIGN:: Line invalid format")
            EXCEPT !.n1 = i, !.text = Take(line, 40)]>>
  ELSE When(m.s_id \notin s_ids,
         <<[Err(3, "PHRASE_ALIGN:: Line uses unknown segment ID")
              EXCEPT !.n1 = i, !.s_id = m.s_id]>>)
       \o When(Strip(m.span1) = <<>>,
         <<[Err(3, "PHRASE_ALIGN:: Line has empty first span")
              EXCEPT !.n1 = i, !.s_id = m.s_id]>>)
       \o When(Strip(m.span2) = <<>>,
         <<[Err(3, "PHRASE_ALIGN:: Line has empty second span")
              EXCEPT !.n1 = i, !.s_id = m.s_id]>>)

\* The PHRASE_ALIGN branches with the two counts of line 155 exchanged.
PhraseAlignSectionCountsSwapped(sec, s_ids) ==
  IF ~sec.found
  THEN <<Err(3, "PHRASE_ALIGN:: marker found but content extraction failed")>>
  ELSE IF sec.content = <<>> /\ s_ids # {}
  THEN <<Err(3, "PHRASE_ALIGN:: section empty but SimS_Segments exist")>>
  ELSE IF sec.content # <<>>
  THEN When(Len(sec.content) # Cardinality(s_ids),
         <<[Err(3, "PHRASE_ALIGN:: Line count differs from SimS_Segments count")
              EXCEPT !.n1 = Cardinality(s_ids), !.n2 = Len(sec.content)]>>)
       \o Flatten([i \in 1..Len(sec.content) |->
            PhraseAlignLine(i, sec.content[i],
                            RE_PHRASE_ALIGN_LINE(sec.content[i]), s_ids)])
  ELSE <<>>

\* lines 151-164, for the section that get_section_content returned
PhraseAlignSection(sec, s_ids) ==
  IF ~sec.found
  THEN <<Err(3, "PHRASE_ALIGN:: marker found but content extraction failed")>>
  ELSE IF sec.content = <<>> /\ s_ids # {}
  THEN <<Err(3, "PHRASE_ALIGN:: section empty but SimS_Segments exist")>>
  ELSE IF sec.content # <<>>
  THEN When(Len(sec.content) # Cardinality(s_ids),
         <<[Err(3, "PHRASE_ALIGN:: Line count differs from SimS_Segments count")
              EXCEPT !.n1 = Len(sec.content), !.n2 = Cardinality(s_ids)]>>)
       \o Flatten([i \in 1..Len(sec.content) |->
            PhraseAlignLine(i, sec.content[i],
                            RE_PHRASE_ALIGN_LINE(sec.content[i]), s_ids)])
  ELSE <<>>

PhraseAlignPhase(lines, s_ids) ==
  PhraseAlignSection(
    get_section_content(lines, M_PHRASE_ALIGN, ALL_POSSIBLE_MARKERS), s_ids)

(***************************************************************************)
(* Phase 4, SimSL: lines 166-185.  iter is the order in which the for loop *)
(* of line 183 meets the elements of s_segment_ids_set.                    *)
(***************************************************************************)
\* The SimSL loop over the content lines without the loop of lines 183-185.
SimSLLinesNoMissingCheck(content_lines, ms, s_ids, iter) ==
  LET lineErrs(i) ==
        IF ~ms[i].ok
        THEN <<[Err(4, "SimSL:: Line invalid format")
                  EXCEPT !.n1 = i, !.text = Take(content_lines[i], 40)]>>
        ELSE When(ms[i].s_id \notin s_ids,
               <<[Err(4, "SimSL:: Line uses unknown segment ID")
                    EXCEPT !.n1 = i, !.s_id = ms[i].s_id]>>)
             \o When(ms[i].s_id \in SeenBefore(ms, i),
               <<[Err(4, "SimSL:: Duplicate S-ID line for segment")
                    EXCEPT !.s_id = ms[i].s_id]>>)
  IN  Flatten([i \in 1..Len(content_lines) |-> lineErrs(i)])

\* lines 175-185: the loop over the content lines (ms holds their matches) and
\* the loop over s_segment_ids_set
SimSLLines(content_lines, ms, s_ids, iter) ==
  LET lineErrs(i) ==
        IF ~ms[i].ok
        THEN <<[Err(4, "SimSL:: Line invalid format")
                  EXCEPT !.n1 = i, !.text = Take(content_lines[i], 40)]>>
        ELSE When(ms[i].s_id \notin s_ids,
               <<[Err(4, "SimSL:: Line uses unknown segment ID")
                    EXCEPT !.n1 = i, !.s_id = ms[i].s_id]>>)
             \o When(ms[i].s_id \in SeenBefore(ms, i),
               <<[Err(4, "SimSL:: Duplicate S-ID line for segment")
                    EXCEPT !.s_id = ms[i].s_id]>>)
      found_s_ids_in_simsl == SeenBefore(ms, Len(content_lines) + 1)
  IN  Flatten([i \in 1..Len(content_lines) |-> lineErrs(i)])
      \o Flatten([j \in 1..Len(iter) |->
           When(iter[j] \notin found_s_ids_in_simsl,
             <<[Err(4, "SimSL:: Missing S-ID line for segment")
                  EXCEPT !.s_id = iter[j]]>>)])

\* lines 168-185, for the section that get_section_content returned
SimSLSection(sec, s_ids, iter) ==
  IF ~sec.found
  THEN <<Err(4, "SimSL:: marker found but content extraction failed")>>
  ELSE IF sec.content = <<>> /\ s_ids # {}
  THEN <<Err(4, "SimSL:: section empty but SimS_Segments exist")>>
  ELSE IF sec.content # <<>>
  THEN When(Len(sec.content) # Cardinality(s_ids),
         <<[Err(4, "SimSL:: Line count differs from SimS_Segments count")
              EXCEPT !.n1 = Len(sec.content), !.n2 = Cardinality(s_ids)]>>)
       \o SimSLLines(sec.content,
            <<>> \o [i \in 1..Len(sec.content) |-> RE_S_LEMMA_LINE(sec.content[i])],
            s_ids, iter)
  ELSE <<>>

SimSLPhase(lines, s_ids, iter) ==
  SimSLSection(get_section_content(lines, M_SimSL, ALL_POSSIBLE_MARKERS),
               s_ids, iter)

(***************************************************************************)
(* Phase 5, AdvSL: lines 188-193.                                          *)
(***************************************************************************)
\* The AdvSL check with "exactly one content line" in place of "at most one".
AdvSLSectionExactlyOne(sec) ==
  IF ~sec.found
  THEN <<Err(5, "AdvSL:: marker found but content extraction failed")>>
  ELSE When(Len(sec.content) # 1,
         <<Err(5, "AdvSL:: section has multiple content lines")>>)

\* The AdvSL check with the bound of line 192 one too high.
AdvSLSectionMoreThanTwo(sec) ==
  IF ~sec.found
  THEN <<Err(5, "AdvSL:: marker found but content extraction failed")>>
  ELSE When(Len(sec.content) > 2,
         <<Err(5, "AdvSL:: section has multiple content lines")>>)

AdvSLSection(sec) ==
  IF ~sec.found
  THEN <<Err(5, "AdvSL:: marker found but content extraction failed")>>
  ELSE When(Len(sec.content) > 1,
         <<Err(5, "AdvSL:: section has multiple content lines")>>)

AdvSLPhase(lines) ==
  AdvSLSection(get_section_content(lines, M_AdvSL, ALL_POSSIBLE_MARKERS))

(***************************************************************************)
(* Phase 6, DIGLOT_MAP: lines 195-246.                                     *)
(***************************************************************************)
\* The checks of a matching entry with the flag compared without regard to case.
DiglotEntryFieldsAnyCase(s_id, preview, m) ==
  LET E(msg) == [Err(6, msg) EXCEPT !.s_id = s_id, !.text = preview]
  IN  When(Strip(m.eng) = <<>>, <<E("DIGLOT_MAP:: entry has empty EngWord")>>)
      \o When(Strip(m.spa_lemma) = <<>>,
           <<E("DIGLOT_MAP:: entry has empty SpaLemma")>>)
      \o When(Strip(m.form) = <<>>,
           <<E("DIGLOT_MAP:: entry has empty ExactSpaForm")>>)
      \o When(m.viability_char \notin {"Y", "N", "y", "n"},
           <<[E("DIGLOT_MAP:: entry has invalid ViabilityFlag character")
                EXCEPT !.other = <<m.viability_char>>]>>)

\* lines 231-241: the checks of an entry that matches (m)
DiglotEntryFields(s_id, preview, m) ==
  LET E(msg) == [Err(6, msg) EXCEPT !.s_id = s_id, !.text = preview]
  IN  When(Strip(m.eng) = <<>>, <<E("DIGLOT_MAP:: entry has empty EngWord")>>)
      \o When(Strip(m.spa_lemma) = <<>>,
           <<E("DIGLOT_MAP:: entry has empty SpaLemma")>>)
      \o When(Strip(m.form) = <<>>,
           <<E("DIGLOT_MAP:: entry has empty ExactSpaForm")>>)
      \o When(m.viability_char \notin {"Y", "N"},
           <<[E("DIGLOT_MAP:: entry has invalid ViabilityFlag character")
                EXCEPT !.other = <<m.viability_char>>]>>)

\* lines 220-241: one part of the split, pipes the number of "|" in the line
DiglotEntryPart(s_id, entries_str, pipes, entry_idx, entry_part_stripped) ==
  IF entry_part_stripped = <<>>
  THEN When(pipes > 0 /\ entry_idx > 0 /\ entry_idx < pipes,
         <<[Err(6, "DIGLOT_MAP:: found empty entry part")
              EXCEPT !.s_id = s_id, !.text = entries_str]>>)
  ELSE IF ~RE_DIGLOT_ENTRY(entry_part_stripped).ok
  THEN <<[Err(6, "DIGLOT_MAP:: entry malformed (failed basic regex)")
            EXCEPT !.s_id = s_id, !.text = Take(entry_part_stripped, 30)]>>
  ELSE DiglotEntryFields(s_id, Take(entry_part_stripped, 30),
                         RE_DIGLOT_ENTRY(entry_part_stripped))

\* lines 219-241: the errors of the entries of one line, parts its split
DiglotEntryParts(s_id, entries_str, parts) ==
  Flatten([k \in 1..Len(parts) |->
    DiglotEntryPart(s_id, entries_str, CountOf(entries_str, "|"), k - 1,
                    Strip(parts[k]))])

DiglotEntryErrors(s_id, entries_str) ==
  DiglotEntryParts(s_id, entries_str, SplitOn(entries_str, "|"))

\* The DIGLOT_MAP loops with line 216 moved under the test of line 218: a
\* header counts as seen only when entries follow it.
DiglotMapLinesEntriesRequired(content_lines, ms, s_ids, iter) ==
  LET lineErrs(i) ==
        IF ~ms[i].ok
        THEN <<[Err(6, "DIGLOT_MAP:: Line invalid S-ID header format")
                  EXCEPT !.n1 = i, !.text = Take(content_lines[i], 40)]>>
        ELSE When(ms[i].s_id \notin s_ids,
               <<[Err(6, "DIGLOT_MAP:: Line uses unknown segment ID")
                    EXCEPT !.n1 = i, !.s_id = ms[i].s_id]>>)
             \o When(ms[i].s_id \in SeenBefore(ms, i),
               <<[Err(6, "DIGLOT_MAP:: Duplicate S-ID line for segment")
                    EXCEPT !.s_id = ms[i].s_id]>>)
             \o When(Strip(ms[i].rest) # <<>>,
                  DiglotEntryErrors(ms[i].s_id, ms[i].rest))
      found_s_ids_in_diglot ==
        {ms[j].s_id : j \in {h \in 1..Len(content_lines) :
                                ms[h].ok /\ Strip(ms[h].rest) # <<>>}}
  IN  Flatten([i \in 1..Len(content_lines) |-> lineErrs(i)])
      \o Flatten([j \in 1..Len(iter) |->
           When(iter[j] \notin found_s_ids_in_diglot,
             <<[Err(6, "DIGLOT_MAP:: Missing S-ID line for segment defined in SimS_Segments")
                  EXCEPT !.s_id = iter[j]]>>)])

\* The DIGLOT_MAP loops with break in place of the continue of line 207: the
\* lines after the first malformed header are not read.
DiglotMapLinesStopAtInvalid(content_lines, ms, s_ids, iter) ==
  LET invalid == {i \in 1..Len(content_lines) : ~ms[i].ok}
      stop == IF invalid = {} THEN Len(content_lines) ELSE MinOf(invalid)
      lineErrs(i) ==
        IF ~ms[i].ok
        THEN <<[Err(6, "DIGLOT_MAP:: Line invalid S-ID header format")
                  EXCEPT !.n1 = i, !.text = Take(content_lines[i], 40)]>>
        ELSE When(ms[i].s_id \notin s_ids,
               <<[Err(6, "DIGLOT_MAP:: Line uses unknown segment ID")
                    EXCEPT !.n1 = i, !.s_id = ms[i].s_id]>>)
             \o When(ms[i].s_id \in SeenBefore(ms, i),
               <<[Err(6, "DIGLOT_MAP:: Duplicate S-ID line for segment")
                    EXCEPT !.s_id = ms[i].s_id]>>)
             \o When(Strip(ms[i].rest) # <<>>,
                  DiglotEntryErrors(ms[i].s_id, ms[i].rest))
      found_s_ids_in_diglot == SeenBefore(ms, stop + 1)
  IN  Flatten([i \in 1..stop |-> lineErrs(i)])
      \o Flatten([j \in 1..Len(iter) |->
           When(iter[j] \notin found_s_ids_in_diglot,
             <<[Err(6, "DIGLOT_MAP:: Missing S-ID line for segment defined in SimS_Segments")
                  EXCEPT !.s_id = iter[j]]>>)])

\* lines 204-246: the loop over the content lines (ms holds the matches of
\* their headers) and the loop over s_segment_ids_set
DiglotMapLines(content_lines, ms, s_ids, iter) ==
  LET lineErrs(i) ==
        IF ~ms[i].ok
        THEN <<[Err(6, "DIGLOT_MAP:: Line invalid S-ID header format")
                  EXCEPT !.n1 = i, !.text = Take(content_lines[i], 40)]>>
        ELSE When(ms[i].s_id \notin s_ids,
               <<[Err(6, "DIGLOT_MAP:: Line uses unknown segment ID")
                    EXCEPT !.n1 = i, !.s_id = ms[i].s_id]>>)
             \o When(ms[i].s_id \in SeenBefore(ms, i),
               <<[Err(6, "DIGLOT_MAP:: Duplicate S-ID line for segment")
                    EXCEPT !.s_id = ms[i].s_id]>>)
             \o When(Strip(ms[i].rest) # <<>>,
                  DiglotEntryErrors(ms[i].s_id, ms[i].rest))
      found_s_ids_in_diglot == SeenBefore(ms, Len(content_lines) + 1)
  IN  Flatten([i \in 1..Len(content_lines) |-> lineErrs(i)])
      \o Flatten([j \in 1..Len(iter) |->
           When(iter[j] \notin found_s_ids_in_diglot,
             <<[Err(6, "DIGLOT_MAP:: Missing S-ID line for segment defined in SimS_Segments")
                  EXCEPT !.s_id = iter[j]]>>)])

\* lines 197-246, for the section that get_section_content returned
DiglotMapSection(sec, s_ids, iter) ==
  IF ~sec.found
  THEN <<Err(6, "DIGLOT_MAP:: marker found but content extraction failed")>>
  ELSE IF sec.content = <<>> /\ s_ids # {}
  THEN <<Err(6, "DIGLOT_MAP:: section empty but SimS_Segments exist")>>
  ELSE IF sec.content # <<>>
  THEN DiglotMapLines(sec.content,
         <<>> \o [i \in 1..Len(sec.content) |-> RE_S_LEMMA_LINE(sec.content[i])],
         s_ids, iter)
  ELSE <<>>

DiglotMapPhase(lines, s_ids, iter) ==
  DiglotMapSection(get_section_content(lines, M_DIGLOT_MAP, ALL_POSSIBLE_MARKERS),
                   s_ids, iter)

(***************************************************************************)
(* Phase 7, LOCKED_PHRASE: lines 249-258.                                  *)
(***************************************************************************)
\* The token loop with the two tests of lines 257-258 as separate ifs.
LockedPhraseIdsBothTests(tokens, s_ids) ==
  Flatten([k \in 1..Len(tokens) |->
    When(~RE_S_ID_FORMAT(tokens[k]),
      <<[Err(7, "LOCKED_PHRASE:: Contains non-S<n> formatted ID")
           EXCEPT !.text = tokens[k]]>>)
    \o When(tokens[k] \notin s_ids,
         <<[Err(7, "LOCKED_PHRASE:: Uses unknown segment ID")
              EXCEPT !.s_id = tokens[k]]>>)])

\* lines 254-258: the IDs of the content line
LockedPhraseIds(tokens, s_ids) ==
  Flatten([k \in 1..Len(tokens) |->
    IF ~RE_S_ID_FORMAT(tokens[k])
    THEN <<[Err(7, "LOCKED_PHRASE:: Contains non-S<n> formatted ID")
              EXCEPT !.text = tokens[k]]>>
    ELSE When(tokens[k] \notin s_ids,
           <<[Err(7, "LOCKED_PHRASE:: Uses unknown segment ID")
                EXCEPT !.s_id = tokens[k]]>>)])

\* lines 250-258, for the section that get_section_content returned
LockedPhraseSection(sec, s_ids) ==
  IF ~sec.found
  THEN <<Err(7, "LOCKED_PHRASE:: marker found but content extraction failed")>>
  ELSE IF Len(sec.content) > 1
  THEN <<Err(7, "LOCKED_PHRASE:: section has multiple content lines")>>
  ELSE IF sec.content # <<>> /\ Strip(sec.content[1]) # <<>>
  THEN LockedPhraseIds(SplitWhitespace(sec.content[1]), s_ids)
  ELSE <<>>

LockedPhrasePhase(lines, mi, s_ids) ==
  IF M_LOCKED_PHRASE \notin DOMAIN mi THEN <<>>
  ELSE LockedPhraseSection(
         get_section_content(lines, M_LOCKED_PHRASE, ALL_POSSIBLE_MARKERS), s_ids)

\* The orders in which a for loop can meet the elements of a set.
Orderings(S) ==
  {f \in [1..Cardinality(S) -> S] : \A i, j \in DOMAIN f : i # j => f[i] # f[j]}

(***************************************************************************)
(* The inputs.  A block is written section by section.  Each section has a *)
(* list of variants: the first is the section as the prompt's format has   *)
(* it, the others leave the marker out, repeat it, or change the content   *)
(* lines.  The sections can be written in another order, and the lines can *)
(* be joined in several ways.  An input takes the first variant everywhere *)
(* except in one place, or in two places when both variants are among the  *)
(* first MaxPaired of their lists.  MaxSegs bounds the number of segments. *)
(***************************************************************************)
MaxSegs == 2
MaxPaired == 4

SPC == <<" ">>
txt_a == <<"a">>
txt_b == <<"b">>
UnknownId == <<"S", "9">>
InputId(i) == <<"S">> \o Decimal(i)
InputIds(k) == [i \in 1..k |-> InputId(i)]

WithText(marker, t) == marker \o SPC \o t
SegLine(id, t) == id \o <<"(">> \o t \o <<")">>
AlignLine(id, s1, s2) == id \o <<" ", "~", " ">> \o s1 \o <<" ", "~", " ">> \o s2
HeaderLine(id, rest) == id \o <<" ", ":", ":", " ">> \o rest
Entry(eng, spa, form, flag) ==
  eng \o <<"-", ">">> \o spa \o <<"(">> \o form \o <<")", "(">> \o flag \o <<")">>
GoodEntry == Entry(<<"a">>, <<"b">>, <<"c">>, <<"Y">>)
OtherEntry == Entry(<<"d">>, <<"e">>, <<"f">>, <<"N">>)
PIPE == <<" ", "|", " ">>

Reverse(q) == [i \in 1..Len(q) |-> q[Len(q) + 1 - i]]
ReplaceLast(q, x) == [i \in 1..Len(q) |-> IF i = Len(q) THEN x ELSE q[i]]
ReplaceFirst(q, x) == [i \in 1..Len(q) |-> IF i = 1 THEN x ELSE q[i]]
DropLast(q) == SubSeq(q, 1, Len(q) - 1)
\* the marker line alone, then the lines; or the first line on the marker line
Under(marker, ls) == <<marker>> \o ls
Inline(marker, ls) == <<WithText(marker, Head(ls))>> \o Tail(ls)

\* AdvS, SimS, SimE: free text after the marker
TextSectionVariants(marker) ==
  << <<WithText(marker, txt_a)>>,
     <<>>,
     <<WithText(marker, txt_a), WithText(marker, txt_b)>>,
     <<WithText(marker, txt_a \o T_END_SENTENCE \o txt_b)>>,
     <<WithText(marker, txt_a), WithText(marker, txt_b), marker>>,
     <<WithText(marker, txt_a), <<"b", " ", "c">> >>,
     <<marker>> >>

SegLines(ids) == [i \in 1..Len(ids) |-> SegLine(ids[i], txt_a)]
SegmentsVariants(k) ==
  LET ids == InputIds(k)
      ok == SegLines(ids)
      H == M_SimS_Segments
  IN  << Under(H, ok),
         Under(H, ReplaceLast(ok, InputId(k) \o <<" ", "a", ")">>)),
         Under(H, ok \o <<SegLine(InputId(1), txt_b)>>),
         <<H>>,
         ok,
         Under(H, ok) \o <<H>>,
         Inline(H, ok),
         Under(H, SegLines(ReplaceLast(ids, InputId(k + 1)))),
         Under(H, SegLines([i \in 1..k |-> InputId(i + 1)])),
         Under(H, SegLines(Reverse(ids) \o <<InputId(1)>>)),
         Under(H, ReplaceLast(ok, SegLine(InputId(k), <<>>))),
         Under(H, ReplaceFirst(ok, SegLine(<<"S", "0", "1">>, txt_a))),
         Under(H, ReplaceFirst(ok, SegLine(InputId(1), SPC))),
         Under(H, ok \o <<T_END_SENTENCE>>) >>

AlignLines(ids) == [i \in 1..Len(ids) |-> AlignLine(ids[i], txt_a, txt_b)]
PhraseAlignVariants(k) ==
  LET ids == InputIds(k)
      ok == AlignLines(ids)
      H == M_PHRASE_ALIGN
      last == InputId(k)
  IN  << Under(H, ok),
         <<H>>,
         Under(H, ReplaceLast(ok, AlignLine(UnknownId, txt_a, txt_b))),
         Under(H, ReplaceLast(ok, last \o <<" ", "~", " ", "a">>)),
         ok,
         Under(H, ok) \o <<H>>,
         Inline(H, ok),
         Under(H, DropLast(ok)) \o <<SPC>>,
         Under(H, ok \o <<AlignLine(InputId(1), txt_b, txt_a)>>),
         Under(H, ReplaceLast(ok, last \o <<" ", "a", " ", "~", " ", "b">>)),
         Under(H, ReplaceLast(ok, AlignLine(last, <<>>, txt_b))),
         Under(H, ReplaceLast(ok, last \o <<" ", "~", " ", "a", " ", "~">>)),
         Under(H, ReplaceLast(ok, last \o <<"~", "~">>)),
         Under(H, ReplaceLast(ok, AlignLine(InputId(1), txt_b, txt_a))),
         Under(H, ReplaceLast(ok, last \o <<"~", "a", "~", "b">>)),
         Under(H, Reverse(ok)),
         Under(H, ReplaceLast(ok, AlignLine(UnknownId, <<>>, <<>>))) >>

LemmaLines(ids) == [i \in 1..Len(ids) |-> HeaderLine(ids[i], txt_a)]
SimSLVariants(k) ==
  LET ids == InputIds(k)
      ok == LemmaLines(ids)
      H == M_SimSL
      last == InputId(k)
  IN  << Under(H, ok),
         <<H>>,
         Under(H, [i \in 1..k |-> HeaderLine(UnknownId, txt_a)]),
         Under(H, ReplaceLast(ok, last \o <<" ", "a">>)),
         ok,
         Under(H, ok) \o <<H>>,
         Inline(H, ok),
         Under(H, DropLast(ok)) \o <<SPC>>,
         Under(H, Tail(ok)) \o <<<<"\t">>>>,
         Under(H, ok \o <<HeaderLine(InputId(1), txt_b)>>),
         Under(H, ReplaceLast(ok, HeaderLine(UnknownId, txt_a))),
         Under(H, ReplaceLast(ok, HeaderLine(last, <<>>))),
         Under(H, ReplaceLast(ok, last \o <<":", ":", "a">>)),
         Under(H, Reverse(ok)) >>

AdvSLVariants ==
  << <<WithText(M_AdvSL, txt_a)>>,
     <<WithText(M_AdvSL, txt_a), txt_b>>,
     <<M_AdvSL \o SPC>>,
     <<>>,
     <<WithText(M_AdvSL, txt_a), M_AdvSL>>,
     <<M_AdvSL, txt_a>>,
     <<M_AdvSL, txt_a, SPC, txt_b>> >>

DiglotLines(ids) == [i \in 1..Len(ids) |-> HeaderLine(ids[i], GoodEntry)]
DiglotMapVariants(k) ==
  LET ids == InputIds(k)
      ok == DiglotLines(ids)
      H == M_DIGLOT_MAP
      last == InputId(k)
      WithEntries(e) == Under(H, ReplaceLast(ok, HeaderLine(last, e)))
  IN  << Under(H, ok),
         <<H>>,
         Under(H, [i \in 1..k |-> HeaderLine(UnknownId, <<>>)]),
         WithEntries(Entry(<<>>, <<"b">>, <<"c">>, <<"X">>)),
         ok,
         Under(H, ok) \o <<H>>,
         Inline(H, ok),
         Under(H, DropLast(ok)) \o <<SPC>>,
         Under(H, Tail(ok)) \o <<SPC>>,
         Under(H, ok \o <<HeaderLine(InputId(1), OtherEntry)>>),
         Under(H, ReplaceLast(ok, last \o SPC \o GoodEntry)),
         Under(H, ReplaceLast(ok, HeaderLine(UnknownId, GoodEntry))),
         Under(H, Reverse(ok)),
         WithEntries(<<>>),
         WithEntries(OtherEntry),
         WithEntries(GoodEntry \o PIPE \o OtherEntry),
         WithEntries(Entry(<<"a">>, <<"b">>, <<"c">>, <<"y">>)),
         WithEntries(Entry(<<"a">>, <<"b">>, <<"c">>, <<"X">>)),
         WithEntries(Entry(<<"a">>, <<"b">>, <<"c">>, <<"1">>)),
         WithEntries(Entry(<<>>, <<"b">>, <<"c">>, <<"Y">>)),
         WithEntries(Entry(<<"a">>, SPC, <<"c">>, <<"N">>)),
         WithEntries(Entry(<<"a">>, <<"b">>, <<>>, <<"Y">>)),
         WithEntries(Entry(SPC, <<>>, <<>>, <<"n">>)),
         WithEntries(<<"a", "-", ">", "b", " ", "c", " ", "(", "Y", ")">>),
         WithEntries(<<"a", "-", ">", "b", "(", "c", ")", " ", "(", "Y", ")">>),
         WithEntries(GoodEntry \o <<" ", "|", "|", " ">> \o OtherEntry),
         WithEntries(<<"|", " ">> \o GoodEntry),
         WithEntries(GoodEntry \o <<" ", "|">>),
         WithEntries(<<"|">>),
         WithEntries(<<"|", " ", "|">>),
         Under(H, <<InputId(1) \o SPC \o GoodEntry>>
                  \o ReplaceLast(ok, HeaderLine(UnknownId, GoodEntry))) >>

Spaced(ids) ==
  IF Len(ids) = 1 THEN ids[1] ELSE ids[1] \o SPC \o ids[2]
LockedPhraseVariants(k) ==
  LET H == M_LOCKED_PHRASE
  IN  << <<>>,
         <<WithText(H, Spaced(<<InputId(k), InputId(1)>>))>>,
         <<WithText(H, UnknownId)>>,
         <<WithText(H, InputId(1))>>,
         <<WithText(H, Spaced(<<InputId(1), <<"X", "1">> >>))>>,
         <<H>>,
         <<H, InputId(1)>>,
         <<WithText(H, InputId(1)), InputId(1)>>,
         <<WithText(H, InputId(1)), WithText(H, InputId(1))>>,
         <<WithText(H, <<"S">>)>> >>

\* The sections, by their place in ALL_POSSIBLE_MARKERS.
SectionVariants(sec, k) ==
  CASE sec = 1 -> TextSectionVariants(M_AdvS)
    [] sec = 2 -> TextSectionVariants(M_SimS)
    [] sec = 3 -> TextSectionVariants(M_SimE)
    [] sec = 4 -> SegmentsVariants(k)
    [] sec = 5 -> PhraseAlignVariants(k)
    [] sec = 6 -> SimSLVariants(k)
    [] sec = 7 -> AdvSLVariants
    [] sec = 8 -> DiglotMapVariants(k)
    [] sec = 9 -> LockedPhraseVariants(k)

NSections == Len(ALL_POSSIBLE_MARKERS)

\* The orders in which the sections are written: the catalog's, LOCKED_PHRASE
\* first, each swap of two neighbours, the first section last, and the first
\* section last with two neighbours swapped as well.
Swap(i) ==
  [j \in 1..NSections |-> IF j = i THEN i + 1 ELSE IF j = i + 1 THEN i ELSE j]
FirstSectionLast ==
  [j \in 1..NSections |-> IF j = NSections - 1 THEN 1
                          ELSE IF j < NSections - 1 THEN j + 1 ELSE j]
SectionOrders ==
  <<[j \in 1..NSections |-> j],
    [j \in 1..NSections |-> IF j = 1 THEN NSections ELSE j - 1]>>
  \o [i \in 1..(NSections - 1) |-> Swap(i)]
  \o <<FirstSectionLast,
       [j \in 1..NSections |-> FirstSectionLast[Swap(4)[j]]]>>

\* str.join
RECURSIVE Join(_, _)
Join(ls, sep) ==
  IF ls = <<>> THEN <<>>
  ELSE IF Len(ls) = 1 THEN ls[1]
  ELSE ls[1] \o sep \o Join(Tail(ls), sep)

NL == <<"\n">>
CRLF == <<"\r", "\n">>
PlainLayout ==
  [lead |-> <<>>, sep |-> NL, end |-> NL, pre |-> <<>>, post |-> <<>>,
   head |-> <<>>, tail |-> <<>>]

\* The ways the lines become a text: the text opens with lead, the lines are
\* joined by sep and closed by end, each line is wrapped in pre and post, and
\* the lines of head and tail are put before and after the block's.
Layouts ==
  << PlainLayout,
     [PlainLayout EXCEPT !.tail = <<T_END_SENTENCE>>],
     [PlainLayout EXCEPT !.sep = <<"\n", " ", "\t", "\n">>],
     [PlainLayout EXCEPT !.pre = <<" ", " ">>, !.post = <<"\t">>],
     [PlainLayout EXCEPT !.head = <<T_END_SENTENCE>>],
     [PlainLayout EXCEPT !.lead = NL],
     [PlainLayout EXCEPT !.end = <<>>],
     [PlainLayout EXCEPT !.sep = CRLF, !.end = CRLF],
     [PlainLayout EXCEPT !.sep = <<"\r">>, !.end = <<>>] >>

ApplyLayout(ls, layout) ==
  LET all == layout.head \o ls \o layout.tail
  IN  layout.lead
      \o Join([i \in 1..Len(all) |-> layout.pre \o all[i] \o layout.post],
              layout.sep)
      \o layout.end

\* A choice: the variant of each section (places 1..NSections), the order
\* (place NSections + 1) and the layout (place NSections + 2).
Places == 1..(NSections + 2)

\* the variants of each section of a block of k segments, for each k
VariantTables ==
  [k \in 1..MaxSegs |-> [sec \in 1..NSections |-> SectionVariants(sec, k)]]

NChoices(table, place) ==
  IF place <= NSections THEN Len(table[place])
  ELSE IF place = NSections + 1 THEN Len(SectionOrders)
  ELSE Len(Layouts)

\* the first variant everywhere, except va at place a and vb at place b
Choice(a, va, b, vb) ==
  [p \in Places |-> IF p = a THEN va ELSE IF p = b THEN vb ELSE 1]

BlockLines(table, choice) ==
  LET order == SectionOrders[choice[NSections + 1]]
  IN  Flatten([j \in 1..NSections |-> table[order[j]][choice[order[j]]]])

BlockText(table, choice) ==
  ApplyLayout(BlockLines(table, choice), Layouts[choice[NSections + 2]])

\* Texts without a non-blank line.
BlankTexts ==
  {<<>>, <<" ">>, <<"\n">>, <<"\r", "\n">>, <<" ", "\n", "\t", "\n">>,
   <<" ", " ", " ", "\n", "\n", " ", " ", " ", "\t", " ", " ">>}

Smaller(x, y) == IF x < y THEN x ELSE y

\* the blocks of k segments that depart from the well-formed block in one
\* place, or in two places by one of the first MaxPaired variants of each
BlockTexts(k) ==
  UNION {{BlockText(VariantTables[k], Choice(a, va, a, va)) :
            va \in 1..NChoices(VariantTables[k], a)} : a \in Places}
  \cup
  UNION {UNION {{BlockText(VariantTables[k], Choice(a, va, b, vb)) :
                   va \in 1..Smaller(MaxPaired, NChoices(VariantTables[k], a)),
                   vb \in 1..Smaller(MaxPaired, NChoices(VariantTables[k], b))} :
                b \in {x \in Places : x > a}} :
         a \in Places}

(***************************************************************************)
(* The blocks in the micro-format the prompt asks for: the eight sections  *)
(* in catalog order, one line per segment in SimS_Segments, PHRASE_ALIGN,  *)
(* SimSL and DIGLOT_MAP, where a DIGLOT_MAP line has no entry, one entry   *)
(* or two, AdvSL with or without lemmas, LOCKED_PHRASE absent or naming    *)
(* defined segments.                                                       *)
(***************************************************************************)
FormatEntries == << <<>>, SPC \o GoodEntry, SPC \o GoodEntry \o PIPE \o OtherEntry >>
FormatAdvSL == << <<WithText(M_AdvSL, txt_a)>>, <<M_AdvSL>> >>
FormatLocked(k) ==
  << <<>>,
     <<WithText(M_LOCKED_PHRASE, InputId(1))>>,
     <<WithText(M_LOCKED_PHRASE, Spaced(<<InputId(k), InputId(1)>>))>> >>

Section6Lines(k, entries, advsl, locked) ==
  <<WithText(M_AdvS, txt_a), WithText(M_SimS, txt_b), WithText(M_SimE, txt_a)>>
  \o Under(M_SimS_Segments, SegLines(InputIds(k)))
  \o Under(M_PHRASE_ALIGN, AlignLines(InputIds(k)))
  \o Under(M_SimSL, LemmaLines(InputIds(k)))
  \o FormatAdvSL[advsl]
  \o Under(M_DIGLOT_MAP,
       [i \in 1..k |-> InputId(i) \o <<" ", ":", ":">> \o FormatEntries[entries[i]]])
  \o FormatLocked(k)[locked]

Section6Blocks ==
  UNION {{Join(Section6Lines(k, e, a, l), NL) \o NL :
            e \in [1..k -> 1..Len(FormatEntries)],
            a \in 1..Len(FormatAdvSL),
            l \in 1..Len(FormatLocked(k))} : k \in 1..MaxSegs}

InputTexts ==
  BlankTexts \cup Section6Blocks \cup UNION {BlockTexts(k) : k \in 1..MaxSegs}

(***************************************************************************)
(* The state of one call of validate_llm_block(block_text).                *)
(***************************************************************************)
VARIABLES
  block_text,             \* the argument
  pc,                     \* the phase that runs next; "done" after the return
  original_lines,         \* block_text.splitlines()
  errors,                 \* the list that is returned
  marker_indices,         \* marker -> index (from 0) of the first line it starts
  s_segment_ids_ordered,  \* the IDs of the well-formed segment lines, in order
  s_segment_ids_set,      \* the same IDs as a set
  set_iteration           \* the order in which this run iterates s_segment_ids_set

(***************************************************************************)
(* The state of one call of process_sentence_with_llm (stage2llm.py) or of *)
(* process_sentence_with_llm_async (stage2llm_async.py), the callers of    *)
(* validate_llm_block.                                                     *)
(***************************************************************************)
VARIABLES
  variant,                    \* "sync" or "async": which of the two functions
  llm_provider,               \* "gemini" or "claude"
  max_api_retries,            \* the argument
  max_validation_retries,     \* the argument
  validation_attempt,         \* the outer loop variable
  api_attempt,                \* the inner loop variable
  raw_llm_output_core,        \* the text of this API cycle, or None
  api_call_successful_flag,
  is_copyright_retry_attempt,
  spc,                        \* the place in the function; "returned" after the return
  result,                     \* the returned value, None before the return
  validator_calls,            \* the texts validate_llm_block was called on, in order
  accepted                    \* those of them for which it returned the empty list

sentence_vars ==
  <<variant, llm_provider, max_api_retries, max_validation_retries,
    validation_attempt, api_attempt, raw_llm_output_core,
    api_call_successful_flag, is_copyright_retry_attempt, spc, result,
    validator_calls, accepted>>

(***************************************************************************)
(* The state of the runs of process_book_file_async on one book: the       *)
(* staged items, the output file, and the locals of the run in progress.   *)
(***************************************************************************)
VARIABLES
  all_items,                          \* the items of the staged file, by type
  output_file,                        \* the text of the .llm.txt file, None when absent
  bpc,                                \* the place in the run; "ended" after the return
  start_item_idx,
  is_resuming,
  existing_content_blocks,
  run_slice_idx,                      \* the loop variable of the item loop
  newly_processed_blocks_this_run,
  daily_limit_hit_for_this_book,
  first_failed_item_original_idx,
  llm_calls_made_this_run,
  was_skipped,                        \* the first component of the returned tuple
  runs,                               \* the number of runs started
  written                             \* what the last ended run wrote to the file

book_vars ==
  <<all_items, output_file, bpc, start_item_idx, is_resuming,
    existing_content_blocks, run_slice_idx, newly_processed_blocks_this_run,
    daily_limit_hit_for_this_book, first_failed_item_original_idx,
    llm_calls_made_this_run, was_skipped, runs, written>>

validator_vars ==
  <<block_text, pc, original_lines, errors, marker_indices,
    s_segment_ids_ordered, s_segment_ids_set, set_iteration>>

vars == <<validator_vars, sentence_vars, book_vars>>

\* Python's None: no text, since a text holds one-character strings only.
None == <<"None">>
NothingWritten == [marker |-> "none", index |-> 0, blocks |-> <<>>]

\* No call of process_sentence_with_llm is in progress.
SentenceIdle ==
  /\ variant = "async"
  /\ llm_provider = "gemini"
  /\ max_api_retries = 0
  /\ max_validation_retries = 0
  /\ validation_attempt = 0
  /\ api_attempt = 0
  /\ raw_llm_output_core = None
  /\ api_call_successful_flag = FALSE
  /\ is_copyright_retry_attempt = FALSE
  /\ spc = "idle"
  /\ result = None
  /\ validator_calls = <<>>
  /\ accepted = {}

\* No run of process_book_file_async is in progress.
BookIdle ==
  /\ all_items = <<>>
  /\ output_file = None
  /\ bpc = "idle"
  /\ start_item_idx = 0
  /\ is_resuming = FALSE
  /\ existing_content_blocks = <<>>
  /\ run_slice_idx = 0
  /\ newly_processed_blocks_this_run = <<>>
  /\ daily_limit_hit_for_this_book = FALSE
  /\ first_failed_item_original_idx = -1
  /\ llm_calls_made_this_run = 0
  /\ was_skipped = FALSE
  /\ runs = 0
  /\ written = NothingWritten

\* No call of validate_llm_block is in progress.
ValidatorIdle ==
  /\ block_text = <<>>
  /\ pc = "idle"
  /\ original_lines = <<>>
  /\ errors = <<>>
  /\ marker_indices = << >>
  /\ s_segment_ids_ordered = <<>>
  /\ s_segment_ids_set = {}
  /\ set_iteration = <<>>

Init ==
  /\ block_text \in InputTexts
  /\ pc = "start"
  /\ original_lines = <<>>
  /\ errors = <<>>
  /\ marker_indices = << >>
  /\ s_segment_ids_ordered = <<>>
  /\ s_segment_ids_set = {}
  /\ set_iteration = <<>>
  /\ SentenceIdle
  /\ BookIdle

\* lines 76-86: split, the emptiness return, the END_SENTENCE check
Start ==
  /\ pc = "start"
  /\ \E lines \in {splitlines(block_text)} :
         /\ original_lines' = lines
         /\ IF stripped_lines_for_initial_checks(lines) = <<>>
            THEN /\ errors' = <<Err(0, "Block is empty or contains only whitespace")>>
                 /\ pc' = "done"
            ELSE /\ errors' = When(HasEndSentence(lines),
                                <<Err(0, "Block contains premature END_SENTENCE marker(s)")>>)
                 /\ pc' = "scan_markers"
  /\ UNCHANGED <<block_text, marker_indices, s_segment_ids_ordered,
                 s_segment_ids_set, set_iteration>>
  /\ UNCHANGED <<sentence_vars, book_vars>>

\* The marker scan without the return of line 114.
ScanMarkersNoReturn ==
  /\ pc = "scan_markers"
  /\ \E st \in {ScanAllMarkers(original_lines, errors)} :
         /\ marker_indices' = st.mi
         /\ errors' = st.errs
  /\ pc' = "check_order"
  /\ UNCHANGED <<block_text, original_lines,
                 s_segment_ids_ordered, s_segment_ids_set, set_iteration>>
  /\ UNCHANGED <<sentence_vars, book_vars>>

\* lines 88-114: the scan for the required and the optional markers, and the
\* return when errors is not empty
ScanMarkers ==
  /\ pc = "scan_markers"
  /\ \E st \in {ScanAllMarkers(original_lines, errors)} :
         /\ marker_indices' = st.mi
         /\ errors' = st.errs
         /\ pc' = IF st.errs # <<>> THEN "done" ELSE "check_order"
  /\ UNCHANGED <<block_text, original_lines, s_segment_ids_ordered,
                 s_segment_ids_set, set_iteration>>
  /\ UNCHANGED <<sentence_vars, book_vars>>

\* lines 116-124: the order check and its return
CheckOrder ==
  /\ pc = "check_order"
  /\ errors' = errors \o OrderErrors(marker_indices)
  /\ pc' = IF errors' # <<>> THEN "done" ELSE "sims_segments"
  /\ UNCHANGED <<block_text, original_lines, marker_indices,
                 s_segment_ids_ordered, s_segment_ids_set, set_iteration>>
  /\ UNCHANGED <<sentence_vars, book_vars>>

\* lines 127-147.  The set is complete here, and so is the order in which the
\* later for loops over it meet its elements: any order, fixed for the run.
SimSSegments ==
  /\ pc = "sims_segments"
  /\ \E r \in {SimSSegmentsPhase(original_lines)} :
         /\ errors' = errors \o r.errs
         /\ s_segment_ids_ordered' = r.ordered
         /\ s_segment_ids_set' = r.set
         /\ set_iteration' \in Orderings(r.set)
  /\ pc' = "phrase_align"
  /\ UNCHANGED <<block_text, original_lines, marker_indices>>
  /\ UNCHANGED <<sentence_vars, book_vars>>

\* lines 149-164
PhraseAlign ==
  /\ pc = "phrase_align"
  /\ errors' = errors \o PhraseAlignPhase(original_lines, s_segment_ids_set)
  /\ pc' = "simsl"
  /\ UNCHANGED <<block_text, original_lines, marker_indices,
                 s_segment_ids_ordered, s_segment_ids_set, set_iteration>>
  /\ UNCHANGED <<sentence_vars, book_vars>>

\* lines 166-185
SimSL ==
  /\ pc = "simsl"
  /\ errors' = errors \o SimSLPhase(original_lines, s_segment_ids_set, set_iteration)
  /\ pc' = "advsl"
  /\ UNCHANGED <<block_text, original_lines, marker_indices,
                 s_segment_ids_ordered, s_segment_ids_set, set_iteration>>
  /\ UNCHANGED <<sentence_vars, book_vars>>

\* lines 188-193
AdvSL ==
  /\ pc = "advsl"
  /\ errors' = errors \o AdvSLPhase(original_lines)
  /\ pc' = "diglot_map"
  /\ UNCHANGED <<block_text, original_lines, marker_indices,
                 s_segment_ids_ordered, s_segment_ids_set, set_iteration>>
  /\ UNCHANGED <<sentence_vars, book_vars>>

\* lines 195-246
DiglotMap ==
  /\ pc = "diglot_map"
  /\ errors' = errors \o DiglotMapPhase(original_lines, s_segment_ids_set, set_iteration)
  /\ pc' = "locked_phrase"
  /\ UNCHANGED <<block_text, original_lines, marker_indices,
                 s_segment_ids_ordered, s_segment_ids_set, set_iteration>>
  /\ UNCHANGED <<sentence_vars, book_vars>>

\* lines 249-260: the optional section, and the return
LockedPhrase ==
  /\ pc = "locked_phrase"
  /\ errors' = errors \o LockedPhrasePhase(original_lines, marker_indices,
                                           s_segment_ids_set)
  /\ pc' = "done"
  /\ UNCHANGED <<block_text, original_lines, marker_indices,
                 s_segment_ids_ordered, s_segment_ids_set, set_iteration>>
  /\ UNCHANGED <<sentence_vars, book_vars>>

Next ==
  \/ Start
  \/ ScanMarkers
  \/ CheckOrder
  \/ SimSSegments
  \/ PhraseAlign
  \/ SimSL
  \/ AdvSL
  \/ DiglotMap
  \/ LockedPhrase

Spec == Init /\ [][Next]_vars

\* The program points of validate_llm_block.
ProgramPoints ==
  {"start", "scan_markers", "check_order", "sims_segments", "phrase_align",
   "simsl", "advsl", "diglot_map", "locked_phrase", "done"}

\* The call runs on: an interpreter that has not reached a return statement
\* executes the next statement.  Every step of Next leaves its program point,
\* and every step of Spec that leaves a program point is a step of Next, so
\* the fairness is stated on pc.
Proceed == pc # "done" /\ pc' \in ProgramPoints /\ pc' # pc
FairSpec == Spec /\ WF_pc(Proceed)


(***************************************************************************)
(* Properties of validate_llm_block.  They speak of the block as the       *)
(* caller sees it: its text, its lines, the lines a marker starts (numbered*)
(* from 1 over all lines) and the list of errors returned.  What is read   *)
(* off the block is computed once per property and handed on: `at` maps a  *)
(* marker to the set of lines it starts, `seg` is the content of           *)
(* SimS_Segments, `universe` the set of segment IDs.                       *)
(***************************************************************************)
Returned == pc = "done"
Accepted == Returned /\ errors = <<>>

ErrorsWith(msg) == {i \in 1..Len(errors) : errors[i].msg = msg}
OrderErrorIndices == ErrorsWith("appears out of expected order relative to")
SectionErrorIndices == {i \in 1..Len(errors) : errors[i].phase >= 2}
EndSentenceError == Err(0, "Block contains premature END_SENTENCE marker(s)")

AllBlank(text) == \A i \in 1..Len(text) : IsSpace(text[i])
HasEndSentenceText == Contains(block_text, T_END_SENTENCE)

StrippedLines == <<>> \o [i \in 1..Len(original_lines) |-> Strip(original_lines[i])]
LinesStartingIn(stripped) ==
  [marker \in Range(ALL_POSSIBLE_MARKERS) |->
     {i \in 1..Len(stripped) : StartsWith(stripped[i], marker)}] @@ <<>>
MarkerLines == LinesStartingIn(StrippedLines)
LineOf(at, marker) == MinOf(at[marker])
NRequired == Len(REQUIRED_SECTION_MARKERS)
CatalogIndex(marker) == CHOOSE k \in 1..NRequired : REQUIRED_SECTION_MARKERS[k] = marker

EachMarkerOnce(at) ==
  /\ \A k \in 1..NRequired : Cardinality(at[REQUIRED_SECTION_MARKERS[k]]) = 1
  /\ Cardinality(at[M_LOCKED_PHRASE]) <= 1
InCatalogOrder(at) ==
  \A k \in 1..(NRequired - 1) :
     LineOf(at, REQUIRED_SECTION_MARKERS[k]) < LineOf(at, REQUIRED_SECTION_MARKERS[k + 1])
PassesPhase1(at) == EachMarkerOnce(at) /\ InCatalogOrder(at)

ContentOf(marker) ==
  get_section_content(original_lines, marker, ALL_POSSIBLE_MARKERS).content
DefinedIds(k) == {SegmentId(j) : j \in 1..k}
\* The matches of the lines of a section with a line pattern.
SegmentMatches(c) == <<>> \o [i \in 1..Len(c) |-> RE_S_SEGMENT_LINE(c[i])]
HeaderMatches(c) == <<>> \o [i \in 1..Len(c) |-> RE_S_LEMMA_LINE(c[i])]
AlignMatches(c) == <<>> \o [i \in 1..Len(c) |-> RE_PHRASE_ALIGN_LINE(c[i])]

\* C1: a block written in the micro-format of section 6 (eight sections in
\* catalog order, k >= 1 segment lines S1..Sk with text, one PHRASE_ALIGN,
\* SimSL and DIGLOT_MAP line per segment, DIGLOT_MAP lines with no entry or
\* with well-formed entries separated by |, at most one AdvSL line, an
\* optional LOCKED_PHRASE line of defined IDs) is returned the empty list.
C1_FormatAccepted ==
  (Returned /\ block_text \in Section6Blocks) => errors = <<>>

C1_Witness ==
  /\ Returned
  /\ block_text \in Section6Blocks
  /\ Len(s_segment_ids_ordered) >= 2
  /\ ContentOf(M_AdvSL) = <<>>
  /\ Len(ContentOf(M_LOCKED_PHRASE)) = 1
  /\ \E i \in 1..Len(ContentOf(M_DIGLOT_MAP)) :
        /\ RE_S_LEMMA_LINE(ContentOf(M_DIGLOT_MAP)[i]).ok
        /\ RE_S_LEMMA_LINE(ContentOf(M_DIGLOT_MAP)[i]).rest = <<>>
  /\ \E i \in 1..Len(ContentOf(M_DIGLOT_MAP)) :
        Contains(ContentOf(M_DIGLOT_MAP)[i], PIPE)

\* The data-model invariants of an accepted block, read off its lines.
SegmentsDefined(ms) ==
  /\ Len(ms) >= 1
  /\ \A i \in 1..Len(ms) :
        ms[i].ok /\ ms[i].s_id = SegmentId(i) /\ ms[i].s_content # <<>>
OneHeaderPerSegment(hs, k) ==
  /\ \A i \in 1..Len(hs) : hs[i].ok /\ hs[i].s_id \in DefinedIds(k)
  /\ \A j \in 1..k :
        Cardinality({i \in 1..Len(hs) : hs[i].s_id = SegmentId(j)}) = 1
AlignIdsDefined(al, k) ==
  \A i \in 1..Len(al) : al[i].ok => al[i].s_id \in DefinedIds(k)
LockedIdsDefined(c, k) ==
  \A i \in 1..Len(c) :
     \A t \in Range(SplitWhitespace(c[i])) :
        RE_S_ID_FORMAT(t) => t \in DefinedIds(k)

\* C2: whenever the empty list is returned, every required marker starts
\* exactly one line and these lines are in catalog order, LOCKED_PHRASE::
\* starts at most one line, SimS_Segments defines k >= 1 segments S1..Sk in
\* this order each with non-empty text, SimSL and DIGLOT_MAP hold exactly one
\* header line per segment and no other line, AdvSL has at most one content
\* line, and every ID referenced in PHRASE_ALIGN, SimSL, DIGLOT_MAP or
\* LOCKED_PHRASE is one of S1..Sk.
C2_AcceptedSatisfiesDataModel ==
  Accepted =>
    LET at == MarkerLines
        k == Len(ContentOf(M_SimS_Segments))
    IN  /\ EachMarkerOnce(at)
        /\ InCatalogOrder(at)
        /\ SegmentsDefined(SegmentMatches(ContentOf(M_SimS_Segments)))
        /\ OneHeaderPerSegment(HeaderMatches(ContentOf(M_SimSL)), k)
        /\ OneHeaderPerSegment(HeaderMatches(ContentOf(M_DIGLOT_MAP)), k)
        /\ Len(ContentOf(M_AdvSL)) <= 1
        /\ AlignIdsDefined(AlignMatches(ContentOf(M_PHRASE_ALIGN)), k)
        /\ LockedIdsDefined(ContentOf(M_LOCKED_PHRASE), k)

C2_Witness ==
  /\ Accepted
  /\ Len(ContentOf(M_SimS_Segments)) >= 2
  /\ MarkerLines[M_LOCKED_PHRASE] # {}
  /\ ContentOf(M_LOCKED_PHRASE) # <<>>
  /\ block_text \notin Section6Blocks

\* C3: for an input whose lines are all whitespace-only (the empty string
\* included) the result is exactly the one error "Block is empty or contains
\* only whitespace": no marker check adds to it.
C3_BlankBlock ==
  (Returned /\ AllBlank(block_text)) =>
     errors = <<Err(0, "Block is empty or contains only whitespace")>>

C3_Witness ==
  /\ Returned
  /\ AllBlank(block_text)
  /\ Len(original_lines) >= 2
  /\ \E i \in 1..Len(original_lines) : original_lines[i] # <<>>

\* C4: when a non-blank line contains END_SENTENCE, the error "Block contains
\* premature END_SENTENCE marker(s)" is in the result exactly once and is its
\* first element, whatever else is wrong with the block.
C4_EndSentenceFirst ==
  (Returned /\ HasEndSentenceText) =>
     /\ errors # <<>>
     /\ errors[1] = EndSentenceError
     /\ Cardinality(ErrorsWith(EndSentenceError.msg)) = 1

C4_Witness ==
  /\ Returned
  /\ HasEndSentenceText
  /\ Len(errors) >= 2
  /\ \A i \in 1..Len(original_lines) :
        ~StartsWith(Strip(original_lines[i]), T_END_SENTENCE)

MissingRequired(at) ==
  {k \in 1..NRequired : at[REQUIRED_SECTION_MARKERS[k]] = {}}
MissingMarkersReported(at) ==
  LET missing == ErrorsWith("Missing required section marker")
  IN  /\ \A k \in MissingRequired(at) :
            Cardinality({i \in missing :
                           errors[i].marker = REQUIRED_SECTION_MARKERS[k]}) = 1
      /\ \A i, j \in missing :
            i < j => CatalogIndex(errors[i].marker) < CatalogIndex(errors[j].marker)
      /\ MissingRequired(at) # {} =>
            OrderErrorIndices = {} /\ SectionErrorIndices = {}

\* C5 as stated: for every required marker that starts no line of the block
\* the result holds exactly one "Missing required section marker" error for
\* it, in catalog order when several are missing, and then no order error and
\* no error of the section checks.
C5_MissingMarkers == Returned => MissingMarkersReported(MarkerLines)

\* C5, for a block with at least one line that is not blank: every required
\* marker that starts no line gets exactly one "Missing required section
\* marker" error, in catalog order, and then the result holds no order error
\* and no error of the section checks.
C5_MissingMarkersNonBlank ==
  (Returned /\ ~AllBlank(block_text)) => MissingMarkersReported(MarkerLines)

C5_Witness ==
  /\ Returned
  /\ ~AllBlank(block_text)
  /\ MissingRequired(MarkerLines) # {}
  /\ MarkerLines[M_SimS_Segments] # {}
  /\ SimSSegmentsPhase(original_lines).errs # <<>>

DuplicatesReported(marker, occ) ==
  LET dupmsg == IF marker \in Range(REQUIRED_SECTION_MARKERS)
                THEN "Duplicate required section marker"
                ELSE "Duplicate optional section marker"
      dup == {i \in ErrorsWith(dupmsg) : errors[i].marker = marker}
  IN  Cardinality(occ) >= 2 =>
        /\ Cardinality(dup) = Cardinality(occ) - 1
        /\ {<<errors[i].n1, errors[i].n2>> : i \in dup}
             = {<<MinOf(occ), j>> : j \in occ \ {MinOf(occ)}}
        /\ OrderErrorIndices = {}
        /\ SectionErrorIndices = {}

\* C6: a marker, required or optional, that starts n >= 2 lines gets exactly
\* n-1 duplicate errors, each naming the line of the first occurrence and the
\* line of one later occurrence, numbered from 1 over all lines of the block;
\* the result then holds no order error and no error of the section checks.
C6_DuplicateMarkers ==
  Returned =>
    LET at == MarkerLines
    IN  \A k \in 1..Len(ALL_POSSIBLE_MARKERS) :
           DuplicatesReported(ALL_POSSIBLE_MARKERS[k], at[ALL_POSSIBLE_MARKERS[k]])

C6_Witness ==
  /\ Returned
  /\ \E k \in 1..Len(ALL_POSSIBLE_MARKERS) :
        LET occ == MarkerLines[ALL_POSSIBLE_MARKERS[k]]
        IN  /\ Cardinality(occ) >= 2
            /\ \E b \in 1..(MinOf(occ) - 1) : Strip(original_lines[b]) = <<>>

OrderErrorsReported(at) ==
  /\ \A k \in 1..NRequired :
        LET marker == REQUIRED_SECTION_MARKERS[k]
            reported == {i \in OrderErrorIndices : errors[i].marker = marker}
        IN  IF k > 1 /\ LineOf(at, marker) < LineOf(at, REQUIRED_SECTION_MARKERS[k - 1])
            THEN /\ Cardinality(reported) = 1
                 /\ \A i \in reported :
                       /\ errors[i].n1 = LineOf(at, marker)
                       /\ errors[i].other = REQUIRED_SECTION_MARKERS[k - 1]
            ELSE reported = {}
  /\ ~InCatalogOrder(at) => OrderErrorIndices # {}

\* C7: in a block without END_SENTENCE where every required marker starts
\* exactly one line (LOCKED_PHRASE:: at most one), an order error is reported
\* for a required marker exactly when its line comes before the line of its
\* catalog predecessor; the error names the marker, its line numbered from 1
\* and the predecessor.  So a block whose required markers are not in catalog
\* order gets at least one order error, and a result with an order error holds
\* no error of the section checks.
C7_OrderErrors ==
  /\ (Returned /\ OrderErrorIndices # {}) => SectionErrorIndices = {}
  /\ (Returned /\ ~HasEndSentenceText) =>
        LET at == MarkerLines
        IN  EachMarkerOnce(at) => OrderErrorsReported(at)

SkipsPredecessor(at) ==
  \E k \in 3..NRequired :
     /\ LineOf(at, REQUIRED_SECTION_MARKERS[k]) > LineOf(at, REQUIRED_SECTION_MARKERS[k - 1])
     /\ LineOf(at, REQUIRED_SECTION_MARKERS[k]) < LineOf(at, REQUIRED_SECTION_MARKERS[k - 2])
C7_Witness ==
  /\ Returned
  /\ ~HasEndSentenceText
  /\ EachMarkerOnce(MarkerLines)
  /\ Cardinality(OrderErrorIndices) >= 2
  /\ SkipsPredecessor(MarkerLines)

\* What the section checks report for the lines, in phase order, when the ID
\* set is met in the order iter.
SectionChecks(lines, mi, iter) ==
  LET s_ids == SimSSegmentsPhase(lines).set
  IN  SimSSegmentsPhase(lines).errs
      \o PhraseAlignPhase(lines, s_ids)
      \o SimSLPhase(lines, s_ids, iter)
      \o AdvSLPhase(lines)
      \o DiglotMapPhase(lines, s_ids, iter)
      \o LockedPhrasePhase(lines, mi, s_ids)

\* C8: a block with an END_SENTENCE line whose markers are all present, once
\* and in order, still gets its section checks: the result is the
\* END_SENTENCE error followed by the section-local errors.
C8_SectionChecksAfterEndSentence ==
  (Returned /\ HasEndSentenceText /\ PassesPhase1(MarkerLines)) =>
     \E iter \in Orderings(SimSSegmentsPhase(original_lines).set) :
        errors = <<EndSentenceError>>
                 \o SectionChecks(original_lines, marker_indices, iter)

WellFormedIds(content) ==
  LET ms == SegmentMatches(content)
      matched == SelectSeq(ms, LAMBDA m : m.ok)
  IN  <<>> \o [i \in 1..Len(matched) |-> matched[i].s_id]
NotSequentialReported(ids) ==
  LET expected == <<>> \o [j \in 1..Len(ids) |-> SegmentId(j)]
      reported == ErrorsWith("SimS_Segments:: IDs not sequential")
  IN  /\ Cardinality(reported) = (IF ids # expected THEN 1 ELSE 0)
      /\ \A i \in reported :
            errors[i].found = ids /\ errors[i].expected = expected

\* C9: for a block that passes Phase 1 and has SimS_Segments content, "IDs not
\* sequential" is reported exactly when the IDs of the well-formed segment
\* lines, in line order, differ from S1..Sn, n the number of these lines; it
\* is reported at most once and carries both lists.
C9_NotSequentialReported ==
  (Returned /\ PassesPhase1(MarkerLines) /\ ContentOf(M_SimS_Segments) # <<>>) =>
     NotSequentialReported(WellFormedIds(ContentOf(M_SimS_Segments)))

UnknownIdMessages ==
  {"PHRASE_ALIGN:: Line uses unknown segment ID",
   "SimSL:: Line uses unknown segment ID",
   "DIGLOT_MAP:: Line uses unknown segment ID",
   "LOCKED_PHRASE:: Uses unknown segment ID"}
\* ms holds the matches of the segment lines
RepeatedSegmentLines(ms) ==
  {i \in 1..Len(ms) :
     ms[i].ok /\ \E j \in 1..(i - 1) : ms[j].ok /\ ms[j].s_id = ms[i].s_id}
RepeatedIds(ms) == {ms[i].s_id : i \in RepeatedSegmentLines(ms)}
DuplicateIdsReported(ms) ==
  \A x \in RepeatedIds(ms) :
     /\ Cardinality({e \in ErrorsWith("SimS_Segments:: Duplicate segment ID") :
                       errors[e].s_id = x})
          = Cardinality({i \in RepeatedSegmentLines(ms) : ms[i].s_id = x})
     /\ \A e \in 1..Len(errors) :
           errors[e].msg \in UnknownIdMessages => errors[e].s_id # x

\* C10 as stated: every well-formed segment line whose ID occurred on an
\* earlier well-formed segment line produces one "Duplicate segment ID" error,
\* and the repeated ID is never reported as unknown by a later section.
C10_DuplicateSegmentIds ==
  Returned => DuplicateIdsReported(SegmentMatches(ContentOf(M_SimS_Segments)))

\* C10, for a block without END_SENTENCE whose required markers each start
\* exactly one line, in catalog order, and where LOCKED_PHRASE:: starts at most
\* one line: every well-formed segment line whose ID occurred on an earlier
\* well-formed segment line produces one "Duplicate segment ID" error, and the
\* repeated ID is never reported as unknown by a later section.
C10_DuplicateSegmentIdsChecked ==
  (Returned /\ ~HasEndSentenceText /\ PassesPhase1(MarkerLines)) =>
     DuplicateIdsReported(SegmentMatches(ContentOf(M_SimS_Segments)))

RepeatedIdUsedLater(ms, locked, al) ==
  \E x \in RepeatedIds(ms) :
     /\ \E t \in Range(locked) : x \in Range(SplitWhitespace(t))
     /\ \E i \in 1..Len(al) : al[i].ok /\ al[i].s_id = x
C10_Witness ==
  /\ Returned
  /\ ~HasEndSentenceText
  /\ PassesPhase1(MarkerLines)
  /\ RepeatedIdUsedLater(SegmentMatches(ContentOf(M_SimS_Segments)),
                         ContentOf(M_LOCKED_PHRASE),
                         AlignMatches(ContentOf(M_PHRASE_ALIGN)))

\* The section checks ran: the result holds no error of Phase 0 or Phase 1.
SectionsChecked ==
  Returned /\ \A i \in 1..Len(errors) : errors[i].phase >= 2
\* The segment universe: the IDs of the well-formed segment lines.
SegmentUniverse == Range(WellFormedIds(ContentOf(M_SimS_Segments)))
\* The errors with this message that name content line i, or the ID x.
LineErrors(msg, i) == {e \in ErrorsWith(msg) : errors[e].n1 = i}
ErrorsAbout(msg, x) == {e \in ErrorsWith(msg) : errors[e].s_id = x}
PhaseErrors(phase) == {e \in 1..Len(errors) : errors[e].phase = phase}
Count(cond) == IF cond THEN 1 ELSE 0

AlignCountErrors ==
  ErrorsWith("PHRASE_ALIGN:: Line count differs from SimS_Segments count")

\* C11 as stated: in a block that passes Phase 1 and defines k >= 1 distinct
\* segment IDs, a PHRASE_ALIGN section of m content lines, for every m from 0
\* to k-1, gets the error "Line count (m) differs from SimS_Segments count
\* (k)" with these two counts.
C11_FewerAlignLines ==
  (Returned /\ PassesPhase1(MarkerLines)) =>
     LET k == Cardinality(SegmentUniverse)
         m == Len(ContentOf(M_PHRASE_ALIGN))
     IN  (k >= 1 /\ m < k) =>
            \E e \in AlignCountErrors : errors[e].n1 = m /\ errors[e].n2 = k

\* C11, for a block without END_SENTENCE that passes Phase 1 and defines
\* k >= 1 distinct segment IDs: a PHRASE_ALIGN section of m content lines with
\* 1 <= m < k gets exactly one line-count error, which names m and k; with
\* m = 0 it gets "section empty but SimS_Segments exist" and no line-count
\* error.
C11_FewerAlignLinesNonEmpty ==
  (Returned /\ ~HasEndSentenceText /\ PassesPhase1(MarkerLines)) =>
     LET k == Cardinality(SegmentUniverse)
         m == Len(ContentOf(M_PHRASE_ALIGN))
     IN  /\ (1 <= m /\ m < k) =>
               /\ Cardinality(AlignCountErrors) = 1
               /\ \A e \in AlignCountErrors :
                     errors[e].n1 = m /\ errors[e].n2 = k
         /\ (k >= 1 /\ m = 0) =>
               /\ AlignCountErrors = {}
               /\ Cardinality(ErrorsWith(
                    "PHRASE_ALIGN:: section empty but SimS_Segments exist")) = 1

C11_Witness ==
  /\ Returned
  /\ ~HasEndSentenceText
  /\ PassesPhase1(MarkerLines)
  /\ 1 <= Len(ContentOf(M_PHRASE_ALIGN))
  /\ Len(ContentOf(M_PHRASE_ALIGN)) < Cardinality(SegmentUniverse)

\* al holds the matches of the PHRASE_ALIGN lines
AlignLineErrorsReported(al, universe) ==
  \A i \in 1..Len(al) :
     LET invalid == LineErrors("PHRASE_ALIGN:: Line invalid format", i)
         unknown == LineErrors("PHRASE_ALIGN:: Line uses unknown segment ID", i)
         first == LineErrors("PHRASE_ALIGN:: Line has empty first span", i)
         second == LineErrors("PHRASE_ALIGN:: Line has empty second span", i)
     IN  IF ~al[i].ok
         THEN /\ Cardinality(invalid) = 1
              /\ unknown = {} /\ first = {} /\ second = {}
         ELSE /\ invalid = {}
              /\ Cardinality(unknown) = Count(al[i].s_id \notin universe)
              /\ Cardinality(first) = Count(Strip(al[i].span1) = <<>>)
              /\ Cardinality(second) = Count(Strip(al[i].span2) = <<>>)
              /\ \A e \in unknown \cup first \cup second :
                    errors[e].s_id = al[i].s_id

LinesHeadedBy(hs, x) == {i \in 1..Len(hs) : hs[i].ok /\ hs[i].s_id = x}
HeaderIds(hs) == {hs[i].s_id : i \in {h \in 1..Len(hs) : hs[h].ok}}
\* The lines are one well-formed header per ID of the segment universe, in
\* any order, and nothing else.
OneHeaderPerUniverseId(hs, universe) ==
  /\ \A i \in 1..Len(hs) : hs[i].ok
  /\ HeaderIds(hs) = universe
  /\ \A x \in universe : Cardinality(LinesHeadedBy(hs, x)) = 1

SimSLHeadersReported(hs, universe) ==
  /\ \A x \in universe :
        Cardinality(ErrorsAbout("SimSL:: Missing S-ID line for segment", x))
          = Count(LinesHeadedBy(hs, x) = {})
  /\ \A e \in ErrorsWith("SimSL:: Missing S-ID line for segment") :
        errors[e].s_id \in universe
  /\ \A x \in HeaderIds(hs) :
        Cardinality(ErrorsAbout("SimSL:: Duplicate S-ID line for segment", x))
          = Cardinality(LinesHeadedBy(hs, x)) - 1
  /\ \A i \in 1..Len(hs) :
        /\ Cardinality(LineErrors("SimSL:: Line uses unknown segment ID", i))
             = Count(hs[i].ok /\ hs[i].s_id \notin universe)
        /\ Cardinality(LineErrors("SimSL:: Line invalid format", i))
             = Count(~hs[i].ok)
  /\ (PhaseErrors(4) = {}) <=> OneHeaderPerUniverseId(hs, universe)

ContentLinesCounted(stripped, marker, first, later) ==
  Count(Strip(Drop(stripped[first], Len(marker))) # <<>>)
  + Cardinality({i \in (first + 1)..(IF later = {} THEN Len(stripped)
                                     ELSE MinOf(later) - 1) :
                   stripped[i] # <<>>})
AdvSLContentLines(stripped, at) ==
  ContentLinesCounted(stripped, M_AdvSL, LineOf(at, M_AdvSL),
    {i \in UNION {at[m] : m \in DOMAIN at} : i > LineOf(at, M_AdvSL)})

CandidatesOfLine(i, h, parts) ==
  {[line |-> i, part |-> j, id |-> h.s_id, str |-> h.rest,
    text |-> Strip(parts[j])] : j \in 1..Len(parts)}
EntryCandidates(hs) ==
  UNION {CandidatesOfLine(i, hs[i], SplitOn(hs[i].rest, "|")) :
           i \in {h \in 1..Len(hs) : hs[h].ok /\ Strip(hs[h].rest) # <<>>}}
DiglotCandidates ==
  EntryCandidates(HeaderMatches(ContentOf(M_DIGLOT_MAP)))

EntryFieldMessages ==
  {"DIGLOT_MAP:: entry malformed (failed basic regex)",
   "DIGLOT_MAP:: entry has empty EngWord",
   "DIGLOT_MAP:: entry has empty SpaLemma",
   "DIGLOT_MAP:: entry has empty ExactSpaForm",
   "DIGLOT_MAP:: entry has invalid ViabilityFlag character"}
EmptyPartMessage == "DIGLOT_MAP:: found empty entry part"

\* Whether the candidate text, by the claim, gets the error msg.
EntryErrorExpected(msg, text) ==
  LET m == RE_DIGLOT_ENTRY(text)
  IN  CASE msg = "DIGLOT_MAP:: entry malformed (failed basic regex)" -> ~m.ok
        [] msg = "DIGLOT_MAP:: entry has empty EngWord" ->
             m.ok /\ Strip(m.eng) = <<>>
        [] msg = "DIGLOT_MAP:: entry has empty SpaLemma" ->
             m.ok /\ Strip(m.spa_lemma) = <<>>
        [] msg = "DIGLOT_MAP:: entry has empty ExactSpaForm" ->
             m.ok /\ Strip(m.form) = <<>>
        [] msg = "DIGLOT_MAP:: entry has invalid ViabilityFlag character" ->
             m.ok /\ m.viability_char # "Y" /\ m.viability_char # "N"

\* cands holds the candidates that are not empty.  Errors name the segment ID
\* and the preview of the candidate, so they are counted per ID and preview.
EntryErrorsReported(cands) ==
  /\ \A c \in cands : \A msg \in EntryFieldMessages :
        Cardinality({e \in ErrorsAbout(msg, c.id) :
                       errors[e].text = Take(c.text, 30)})
          = Cardinality({d \in cands :
               /\ d.id = c.id
               /\ Take(d.text, 30) = Take(c.text, 30)
               /\ EntryErrorExpected(msg, d.text)})
  /\ \A msg \in EntryFieldMessages : \A e \in ErrorsWith(msg) :
        \E c \in cands :
           /\ errors[e].s_id = c.id
           /\ errors[e].text = Take(c.text, 30)
           /\ EntryErrorExpected(msg, c.text)
           /\ msg = "DIGLOT_MAP:: entry has invalid ViabilityFlag character"
                => errors[e].other = <<RE_DIGLOT_ENTRY(c.text).viability_char>>

EmptyEntriesLinesAccepted(hs) ==
  \A i \in 1..Len(hs) :
     (hs[i].ok /\ hs[i].rest = <<>>) =>
        /\ ErrorsAbout("DIGLOT_MAP:: Missing S-ID line for segment defined in SimS_Segments",
                       hs[i].s_id) = {}
        /\ (\A h \in LinesHeadedBy(hs, hs[i].s_id) : hs[h].rest = <<>>)
             => \A msg \in EntryFieldMessages \cup {EmptyPartMessage} :
                   ErrorsAbout(msg, hs[i].s_id) = {}

\* C16: when validation reaches the section checks, a DIGLOT_MAP line that is
\* exactly "S<n> ::" produces no entry-level error and counts as the header
\* line of S<n>: no "Missing S-ID line for segment defined in SimS_Segments"
\* error is reported for S<n>.
C16_EmptyEntriesLine ==
  SectionsChecked =>
    EmptyEntriesLinesAccepted(HeaderMatches(ContentOf(M_DIGLOT_MAP)))

BareHeaderOfLaterSegment(c, universe) ==
  \E i \in 1..Len(c) : \E x \in universe \ {SegmentId(1)} :
     c[i] = x \o <<" ", ":", ":">>
C16_Witness ==
  /\ SectionsChecked
  /\ PhaseErrors(6) = {}
  /\ BareHeaderOfLaterSegment(ContentOf(M_DIGLOT_MAP), SegmentUniverse)

\* cands holds the candidates that are blank after trimming
EmptyPartsReported(cands) ==
  \A c \in cands :
     Cardinality({e \in ErrorsAbout(EmptyPartMessage, c.id) :
                    errors[e].text = c.str})
       = Cardinality({d \in cands : d.id = c.id /\ d.str = c.str})

\* C17: when validation reaches the section checks, in a DIGLOT_MAP line whose
\* text after "::" is not blank every entry candidate that is blank after
\* trimming (from "||", a leading "|" or a trailing "|") is reported with the
\* error "found empty entry part", which names the segment ID and the whole
\* entries string; none is skipped silently.
C17_EmptyEntryParts ==
  SectionsChecked =>
    EmptyPartsReported({c \in DiglotCandidates : c.text = <<>>})

DiglotHeadersReported(hs, universe) ==
  /\ \A i \in 1..Len(hs) :
        /\ Cardinality(LineErrors("DIGLOT_MAP:: Line invalid S-ID header format", i))
             = Count(~hs[i].ok)
        /\ Cardinality(LineErrors("DIGLOT_MAP:: Line uses unknown segment ID", i))
             = Count(hs[i].ok /\ hs[i].s_id \notin universe)
  /\ \A x \in HeaderIds(hs) :
        Cardinality(ErrorsAbout("DIGLOT_MAP:: Duplicate S-ID line for segment", x))
          = Cardinality(LinesHeadedBy(hs, x)) - 1
  /\ \A x \in universe :
        Cardinality(ErrorsAbout(
          "DIGLOT_MAP:: Missing S-ID line for segment defined in SimS_Segments", x))
          = Count(LinesHeadedBy(hs, x) = {})
  /\ \A e \in ErrorsWith(
          "DIGLOT_MAP:: Missing S-ID line for segment defined in SimS_Segments") :
        errors[e].s_id \in universe

MalformedThenUnknown(hs, universe) ==
  \E i, j \in 1..Len(hs) :
     /\ i < j
     /\ ~hs[i].ok
     /\ hs[j].ok /\ hs[j].s_id \notin universe
     /\ LineErrors("DIGLOT_MAP:: Line uses unknown segment ID", j) # {}

LockedMultipleMessage == "LOCKED_PHRASE:: section has multiple content lines"
LockedNonSMessage == "LOCKED_PHRASE:: Contains non-S<n> formatted ID"
LockedUnknownMessage == "LOCKED_PHRASE:: Uses unknown segment ID"
TokenPlaces(tokens, t) == {k \in 1..Len(tokens) : tokens[k] = t}
LockedErrorsWithText(msg, t) == {e \in ErrorsWith(msg) : errors[e].text = t}

\* What the tokens of the one content line yield.
LockedTokensReported(tokens, universe) ==
  /\ \A t \in Range(tokens) :
        /\ Cardinality(LockedErrorsWithText(LockedNonSMessage, t))
             = Cardinality(TokenPlaces(tokens, t)) * Count(~RE_S_ID_FORMAT(t))
        /\ Cardinality(ErrorsAbout(LockedUnknownMessage, t))
             = Cardinality(TokenPlaces(tokens, t))
                 * Count(RE_S_ID_FORMAT(t) /\ t \notin universe)
  /\ \A e \in PhaseErrors(7) :
        \/ errors[e].msg = LockedNonSMessage /\ errors[e].text \in Range(tokens)
        \/ errors[e].msg = LockedUnknownMessage /\ errors[e].s_id \in Range(tokens)

LockedPhraseReported(at, c, universe) ==
  IF at[M_LOCKED_PHRASE] = {} \/ c = <<>>
  THEN PhaseErrors(7) = {}
  ELSE IF Len(c) > 1
  THEN /\ Cardinality(PhaseErrors(7)) = 1
       /\ PhaseErrors(7) = ErrorsWith(LockedMultipleMessage)
  ELSE LockedTokensReported(SplitWhitespace(c[1]), universe)

MixedTokens(c, universe) ==
  /\ Len(c) = 1
  /\ \E t \in Range(SplitWhitespace(c[1])) : ~RE_S_ID_FORMAT(t)
  /\ \E t \in Range(SplitWhitespace(c[1])) : t \in universe

SectionRead ==
  [sims_segments |-> M_SimS_Segments, phrase_align |-> M_PHRASE_ALIGN,
   simsl |-> M_SimSL, advsl |-> M_AdvSL, diglot_map |-> M_DIGLOT_MAP]
ExtractionFailed ==
  {e \in 1..Len(errors) :
     errors[e].msg \in
       {"SimS_Segments:: marker found but content extraction failed",
        "PHRASE_ALIGN:: marker found but content extraction failed",
        "SimSL:: marker found but content extraction failed",
        "AdvSL:: marker found but content extraction failed",
        "DIGLOT_MAP:: marker found but content extraction failed",
        "LOCKED_PHRASE:: marker found but content extraction failed"}}
SectionFound(marker) ==
  get_section_content(original_lines, marker, ALL_POSSIBLE_MARKERS).found

\* No step of the call reads what is not there.
NeverRaises ==
  /\ DOMAIN errors = 1..Len(errors)
  /\ \A e \in 1..Len(errors) : DOMAIN errors[e] = DOMAIN Err(0, "")
  /\ pc = "check_order" =>
        \A k \in 1..NRequired : REQUIRED_SECTION_MARKERS[k] \in DOMAIN marker_indices
  /\ pc \in DOMAIN SectionRead => SectionFound(SectionRead[pc])
  /\ (pc = "locked_phrase" /\ M_LOCKED_PHRASE \in DOMAIN marker_indices) =>
        SectionFound(M_LOCKED_PHRASE)
  /\ ExtractionFailed = {}

\* C20: validate_llm_block is total.  Every call returns, with a list of
\* errors; the order check starts only with a recorded line index for each of
\* the eight required markers, each section check finds the section it reads,
\* and no "content extraction failed" error is ever produced.
C20_Total == []NeverRaises /\ <>Returned

\* A call has returned from the marker scan with a required marker missing
\* from a block that is not blank: the order check was not run.
C20_Witness ==
  /\ Returned
  /\ ~AllBlank(block_text)
  /\ \E k \in 1..NRequired : REQUIRED_SECTION_MARKERS[k] \notin DOMAIN marker_indices
  /\ ErrorsWith("Missing required section marker") # {}

\* C21: a call that reaches the section checks returns the list that any
\* other call on the same text returns, whatever the order in which that call
\* meets the IDs of the segment set in the loops of lines 183 and 244.
C21_Deterministic ==
  SectionsChecked =>
     \A iter \in Orderings(s_segment_ids_set) :
        SectionChecks(original_lines, marker_indices, iter) = errors

\* The phase after each section check.
NextPhase ==
  [sims_segments |-> "phrase_align", phrase_align |-> "simsl", simsl |-> "advsl",
   advsl |-> "diglot_map", diglot_map |-> "locked_phrase", locked_phrase |-> "done"]
PhaseOrdered(errs) ==
  \A i, j \in 1..Len(errs) : i < j => errs[i].phase <= errs[j].phase

\* One step of a call on a block that passes Phase 1 (such a block is not
\* blank): the checks before the sections lead on to SimS_Segments, each
\* section check leads on to the next whatever it found, and the errors stand
\* in phase order.
PhasesRunInOrder ==
  /\ (pc = "start" /\ ~AllBlank(block_text)) => pc' = "scan_markers"
  /\ (pc = "scan_markers" /\ PassesPhase1(MarkerLines)) => pc' = "check_order"
  /\ (pc = "check_order" /\ PassesPhase1(MarkerLines)) => pc' = "sims_segments"
  /\ pc \in DOMAIN NextPhase => pc' = NextPhase[pc]
  /\ PhaseOrdered(errors')

\* C22: for every block whose required markers all stand once and in catalog
\* order, the call runs SimS_Segments, PHRASE_ALIGN, SimSL, AdvSL, DIGLOT_MAP
\* and LOCKED_PHRASE one after the other whatever errors it has found, and in
\* the list every error of an earlier phase stands before every error of a
\* later phase.
C22_AllPhasesRun == [][PhasesRunInOrder]_vars

\* The lines (counted from 1) after line i whose trimmed text starts with a
\* marker of the list, and the line that ends the section that starts at i.
MarkerLinesAfter(stripped, i, markers) ==
  {j \in (i + 1)..Len(stripped) :
     \E m \in Range(markers) : StartsWith(stripped[j], m)}
SectionEnd(stripped, i, markers) ==
  IF MarkerLinesAfter(stripped, i, markers) = {} THEN Len(stripped) + 1
  ELSE MinOf(MarkerLinesAfter(stripped, i, markers))
NonBlankBetween(stripped, i, j) == {h \in (i + 1)..(j - 1) : stripped[h] # <<>>}
\* The r-th line of a set of lines.
NthOf(S, r) == CHOOSE h \in S : Cardinality({g \in S : g <= h}) = r

\* res is what the section of marker m is: found at line i, with the trimmed
\* text after the marker when it is not blank, then the trimmed non-blank
\* lines up to the line j that ends the section.
IsSectionFrom(res, stripped, m, i, j, after) ==
  LET between == NonBlankBetween(stripped, i, j)
      off == Count(after # <<>>)
  IN  /\ res.found
      /\ res.idx = i - 1
      /\ Len(res.content) = off + Cardinality(between)
      /\ after # <<>> => res.content[1] = after
      /\ \A r \in 1..Cardinality(between) :
            res.content[off + r] = stripped[NthOf(between, r)]
      /\ \A r \in 1..Len(res.content) : res.content[r] # <<>>

IsSectionOf(res, stripped, m, markers, starts) ==
  IF starts = {} THEN ~res.found
  ELSE IsSectionFrom(res, stripped, m, MinOf(starts),
                     SectionEnd(stripped, MinOf(starts), markers),
                     Strip(Drop(stripped[MinOf(starts)], Len(m))))

EverySectionOf(lines, stripped, at) ==
  \A m \in Range(ALL_POSSIBLE_MARKERS) :
     IsSectionOf(get_section_content(lines, m, ALL_POSSIBLE_MARKERS),
                 stripped, m, ALL_POSSIBLE_MARKERS, at[m])

\* C23: get_section_content(lines, m, M) returns (None, None) exactly when no
\* line's trimmed text starts with m; otherwise it returns the index of the
\* first such line and, as content, the trimmed text after m on that line
\* when it is not blank, followed in order by the trimmed text of every
\* non-blank line strictly between that line and the first later line whose
\* trimmed text starts with a marker of M (or the end of the block).  Blank
\* lines are not in the content and do not end the section.
\* (original_lines is set by the first step and never changes afterwards, so
\* the lines of every call are met in the state after that step.)
C23_SectionContent ==
  pc = "scan_markers" =>
     EverySectionOf(original_lines, StrippedLines, MarkerLines)

\* A section with text on its marker line, a blank line inside it and a
\* content line after the blank line, in a block where another marker of the
\* list starts no line.
SectionAcrossBlank(stripped, i, j, after) ==
  /\ after # <<>>
  /\ \E b, h \in (i + 1)..(j - 1) : b < h /\ stripped[b] = <<>> /\ stripped[h] # <<>>
SomeSectionAcrossBlank(stripped, at) ==
  /\ \E m \in Range(ALL_POSSIBLE_MARKERS) :
        /\ at[m] # {}
        /\ SectionAcrossBlank(stripped, MinOf(at[m]),
                              SectionEnd(stripped, MinOf(at[m]), ALL_POSSIBLE_MARKERS),
                              Strip(Drop(stripped[MinOf(at[m])], Len(m))))
  /\ \E m \in Range(ALL_POSSIBLE_MARKERS) : at[m] = {}
C23_Witness ==
  /\ pc = "scan_markers"
  /\ SomeSectionAcrossBlank(StrippedLines, MarkerLines)

NoSegmentLinesMessage ==
  "SimS_Segments:: section is present but has no segment definition lines"
\* Every well-formed line of ms has one error with this message and its line
\* number.
EachWellFormedLineUnknown(ms, msg) ==
  \A i \in 1..Len(ms) : ms[i].ok => Cardinality(LineErrors(msg, i)) = 1

EmptySegmentsReported(align, simsl, diglot) ==
  /\ Cardinality(PhaseErrors(2)) = 1
  /\ PhaseErrors(2) = ErrorsWith(NoSegmentLinesMessage)
  /\ ErrorsWith("PHRASE_ALIGN:: section empty but SimS_Segments exist") = {}
  /\ ErrorsWith("SimSL:: section empty but SimS_Segments exist") = {}
  /\ ErrorsWith("DIGLOT_MAP:: section empty but SimS_Segments exist") = {}
  /\ EachWellFormedLineUnknown(align, "PHRASE_ALIGN:: Line uses unknown segment ID")
  /\ EachWellFormedLineUnknown(simsl, "SimSL:: Line uses unknown segment ID")
  /\ EachWellFormedLineUnknown(diglot, "DIGLOT_MAP:: Line uses unknown segment ID")

\* C24: when the SimS_Segments section of a block that passes Phase 1 has no
\* content line, the result holds exactly one SimS_Segments error, "section
\* is present but has no segment definition lines", no "section empty but
\* SimS_Segments exist" error for PHRASE_ALIGN, SimSL or DIGLOT_MAP, and an
\* unknown-segment-ID error for every well-formed S-ID line of these three
\* sections.
C24_EmptySegments ==
  (Returned /\ PassesPhase1(MarkerLines) /\ ContentOf(M_SimS_Segments) = <<>>) =>
     EmptySegmentsReported(AlignMatches(ContentOf(M_PHRASE_ALIGN)),
                           HeaderMatches(ContentOf(M_SimSL)),
                           HeaderMatches(ContentOf(M_DIGLOT_MAP)))

\* Each ID of the universe is the ID of exactly one line, and every line is a
\* well-formed line.
OneAlignLinePerSegment(al, universe) ==
  /\ \A i \in 1..Len(al) : al[i].ok
  /\ \A x \in universe :
        Cardinality({i \in 1..Len(al) : al[i].ok /\ al[i].s_id = x}) = 1

\* C25: in every accepted block the PHRASE_ALIGN section has exactly one line
\* for each segment ID of the block: no segment is aligned on two lines and
\* none is left without an alignment line.
C25_OneAlignLinePerSegment ==
  Accepted =>
     OneAlignLinePerSegment(AlignMatches(ContentOf(M_PHRASE_ALIGN)), SegmentUniverse)

\* C26: a result that holds a "SimS_Segments:: Duplicate segment ID" error
\* holds the "SimS_Segments:: IDs not sequential" error too, and that error
\* shows the repeated ID twice in the list it found.
C26_DuplicateNeverAlone ==
  \A e \in ErrorsWith("SimS_Segments:: Duplicate segment ID") :
     \E q \in ErrorsWith("SimS_Segments:: IDs not sequential") :
        Cardinality({i \in 1..Len(errors[q].found) :
                       errors[q].found[i] = errors[e].s_id}) >= 2

C26_Witness ==
  /\ Returned
  /\ ErrorsWith("SimS_Segments:: Duplicate segment ID") # {}

(***************************************************************************)
(* validate_llm_block as a function of the text and of the order in which  *)
(* the loops of lines 183 and 244 meet the segment IDs: lines 76-260.      *)
(***************************************************************************)
\* lines 116-124 and what follows them
ResultAfterOrder(lines, mi, order_errors, iter) ==
  IF order_errors # <<>> THEN order_errors ELSE SectionChecks(lines, mi, iter)
\* lines 114-260
ResultAfterScan(lines, st, iter) ==
  IF st.errs # <<>> THEN st.errs
  ELSE ResultAfterOrder(lines, st.mi, OrderErrors(st.mi), iter)
\* lines 78-260
ResultOfLines(lines, iter) ==
  IF stripped_lines_for_initial_checks(lines) = <<>>
  THEN <<Err(0, "Block is empty or contains only whitespace")>>
  ELSE ResultAfterScan(lines,
         ScanAllMarkers(lines,
           When(HasEndSentence(lines),
                <<Err(0, "Block contains premature END_SENTENCE marker(s)")>>)),
         iter)
validate_llm_block(text, iter) == ResultOfLines(splitlines(text), iter)

\* The text without its whitespace-only lines and without the whitespace
\* around its lines.
Normalized(text) == Join(stripped_lines_for_initial_checks(splitlines(text)), NL)

\* The list without the line numbers that the duplicate-marker and the order
\* errors quote.
WithoutMarkerLineNumbers(errs) ==
  [i \in 1..Len(errs) |->
     IF errs[i].phase = 1 THEN [errs[i] EXCEPT !.n1 = 0, !.n2 = 0] ELSE errs[i]]

SameUnderWhitespace(errs, normal, at) ==
  /\ (errs = <<>>) <=> (normal = <<>>)
  /\ PassesPhase1(at) => errs = normal
  /\ WithoutMarkerLineNumbers(errs) = WithoutMarkerLineNumbers(normal)

\* C27: a block and the block without its whitespace-only lines and without
\* the whitespace around its lines are both accepted or both rejected; when
\* the required markers all stand once and in order the two lists are equal,
\* and otherwise they differ at most in the line numbers of the
\* duplicate-marker and order errors.  Two blocks that differ by
\* whitespace-only lines or by whitespace around lines have the same
\* normalized block, so the same holds between them.
C27_WhitespaceInsensitive ==
  Returned =>
     SameUnderWhitespace(errors,
                         validate_llm_block(Normalized(block_text), set_iteration),
                         MarkerLines)

\* A block with a whitespace-only line inside a section and whitespace around
\* a line, that reaches the section checks and is rejected there.
HasWhitespaceOnlyLineInside(lines) ==
  \E i, j, h \in 1..Len(lines) :
     /\ i < j /\ j < h
     /\ Strip(lines[i]) # <<>> /\ Strip(lines[j]) = <<>> /\ Strip(lines[h]) # <<>>
C27_Witness ==
  /\ SectionsChecked
  /\ errors # <<>>
  /\ HasWhitespaceOnlyLineInside(original_lines)

\* get_section_content finds each marker that the marker scan recorded.
RecordedMarkersFound(lines, mi) ==
  \A m \in DOMAIN mi :
     get_section_content(lines, m, ALL_POSSIBLE_MARKERS).found
AllRequiredRecorded(mi) ==
  \A k \in 1..NRequired : REQUIRED_SECTION_MARKERS[k] \in DOMAIN mi

\* C30: no result holds a "marker found but content extraction failed"
\* error: a call that starts the section checks has recorded all eight
\* required markers, and get_section_content finds every marker that was
\* recorded, LOCKED_PHRASE:: included, so none of its results is
\* (None, None).
C30_NoExtractionFailure ==
  /\ ExtractionFailed = {}
  /\ pc = "sims_segments" =>
        /\ AllRequiredRecorded(marker_indices)
        /\ RecordedMarkersFound(original_lines, marker_indices)

\* A call on a block with LOCKED_PHRASE:: and with whitespace before the
\* markers has come through the section checks.
C30_Witness ==
  /\ SectionsChecked
  /\ M_LOCKED_PHRASE \in DOMAIN marker_indices
  /\ \E i \in 1..Len(original_lines) :
        /\ ~StartsWith(original_lines[i], M_SimSL)
        /\ StartsWith(Strip(original_lines[i]), M_SimSL)

(***************************************************************************)
(* The callers of the validator: process_sentence_with_llm (stage2llm.py)  *)
(* and process_sentence_with_llm_async (stage2llm_async.py).  One call     *)
(* asks the LLM for a block up to max_validation_retries times, each time  *)
(* with up to max_api_retries API calls, and validates what it got.  What  *)
(* the LLM answers is the environment's choice.                            *)
(***************************************************************************)
FATAL_QUOTA_ERROR_SENTINEL ==
  <<"_","_","F","A","T","A","L","_","Q","U","O","T","A","_","E","R","R",
    "O","R","_","D","E","T","E","C","T","E","D","_","S","T","O","P","_",
    "B","O","O","K","_","_">>
COPYRIGHT_BLOCK_PLACEHOLDER_PREFIX ==
  <<"/","/"," ","L","L","M","_","C","O","P","Y","R","I","G","H","T","_",
    "D","E","T","E","C","T","E","D","_","R","E","P","H","R","A","S","E",
    "_","A","T","T","E","M","P","T","_","F","O","R","_","S","O","U","R",
    "C","E",":"," ">>
T_COMMENT == <<"/", "/">>
T_DEBUG == <<"/","/"," ","D","E","B","U","G",":">>
T_LLM_BLOCKED == <<"/","/"," ","L","L","M","_","B","L","O","C","K","E","D">>
M_CHAPTER_MARKER_DIRECT == <<"C","H","A","P","T","E","R","_","M","A","R","K","E","R","_","D","I",
    "R","E","C","T",":",":">>
T_FOR_SOURCE == <<"F","O","R","_","S","O","U","R","C","E",":"," ">>

\* the arguments that are the same in every call considered
source_sentence_text == <<"H","o","l","a",".">>
model_name_to_use_in_api_call == <<"m","o","d","e","l","s","/","m">>

\* str.replace(a, b) for one-character a and b
ReplaceChar(s, a, b) == [i \in 1..Len(s) |-> IF s[i] = a THEN b ELSE s[i]]

\* llm_provider.capitalize() and llm_provider.upper()
Capitalized(provider) == IF provider = "gemini" THEN <<"G","e","m","i","n","i">> ELSE <<"C","l","a","u","d","e">>
Upper(provider) == IF provider = "gemini" THEN <<"G","E","M","I","N","I">> ELSE <<"C","L","A","U","D","E">>

\* "// <tag> (<Provider>[, <detail>]) FOR_SOURCE: <source>", the form of the
\* placeholders of the API loop of the asynchronous function
ApiPlaceholder(tag, provider, detail) ==
  T_COMMENT \o <<" ">> \o tag \o <<" ", "(">> \o Capitalized(provider)
  \o detail \o <<")", " ">> \o T_FOR_SOURCE \o source_sentence_text

\* "// <PROVIDER>_<model>_<tag>" and what follows; the list of errors that the
\* code quotes between the two is left out of the text
ModelPlaceholder(provider, tag, rest) ==
  T_COMMENT \o <<" ">> \o Upper(provider) \o <<"_">>
  \o ReplaceChar(model_name_to_use_in_api_call, "/", "_") \o <<"_">> \o tag
  \o rest \o source_sentence_text

\* Python's truth value of a text or None
Truthy(x) == x # None /\ x # <<>>

(***************************************************************************)
(* What the LLM can answer.  The texts: a block in the format, a block     *)
(* without its first section, the block followed by an END_SENTENCE line,  *)
(* the block after a debug line, a debug line alone, a blank text, a text  *)
(* that looks like a placeholder, and the sentinel.                        *)
(***************************************************************************)
ValidLLMBlock == Join(Section6Lines(1, <<2>>, 1, 1), NL)
InvalidLLMBlock == Join(Tail(Section6Lines(1, <<2>>, 1, 1)), NL)
DebugLine == T_DEBUG \o <<" ","u","n","s","u","r","e">>

LLMTexts ==
  { ValidLLMBlock \o NL,
    InvalidLLMBlock,
    ValidLLMBlock \o NL \o T_END_SENTENCE \o NL,
    DebugLine \o NL \o ValidLLMBlock,
    DebugLine,
    <<" ">>,
    T_LLM_BLOCKED \o <<" ","a","s"," ","t","h","e"," ","m","o","d","e","l"," ","s","a","y",
    "s">>,
    FATAL_QUOTA_ERROR_SENTINEL }

Outcome(kind, text, reason) == [kind |-> kind, text |-> text, reason |-> reason]

\* generate_content_async of Gemini: a response with parts and a text, with or
\* without a block reason that names recitation; a response without parts,
\* with or without a block reason; an exception
AsyncGeminiOutcomes ==
  {Outcome("text", t, r) : t \in LLMTexts, r \in {"", "recitation"}}
  \cup {Outcome("no_parts", <<>>, r) : r \in {"", "quota", "recitation", "other"}}
  \cup {Outcome("Exception", <<>>, "")}

\* messages.create of Claude: a content with a text, an empty content, or one
\* of the exceptions the handlers tell apart.  An exception of a class that
\* inherits from APIStatusError is met by that handler when it reaches it.
AsyncClaudeOutcomes ==
  {Outcome("text", t, "") : t \in LLMTexts}
  \cup {Outcome(k, <<>>, "") :
          k \in {"empty", "APIConnectionError", "RateLimitError",
                 "APIStatusError", "AuthenticationError", "Exception"}}
  \cup {Outcome("APIStatusError", <<>>, "safety")}

\* generate_content of Gemini in the synchronous function: a text, no parts
\* with a block reason, no parts without one or parts without a text (the
\* attempt ends without a text), an exception that names a quota, another
\* exception
SyncOutcomes ==
  {Outcome("text", t, "") : t \in LLMTexts}
  \cup {Outcome("no_parts", <<>>, r) : r \in {"", "other"}}
  \cup {Outcome("no_text", <<>>, "")}
  \cup {Outcome("Exception", <<>>, r) : r \in {"", "quota"}}

\* What one API attempt does: go on with the next attempt, leave the API loop
\* with a text, or return from the function.
Continue == [do |-> "continue", raw |-> None, flag |-> FALSE]
Break(raw, flag) == [do |-> "break", raw |-> raw, flag |-> flag]
Return(value) == [do |-> "return", raw |-> value, flag |-> FALSE]
LastOr(last, raw) == IF last THEN Break(raw, FALSE) ELSE Continue

CopyrightPlaceholder == COPYRIGHT_BLOCK_PLACEHOLDER_PREFIX \o source_sentence_text

\* stage2llm_async.py lines 486-518 and 539-545 (for Gemini the first except
\* clause meets every exception)
AsyncGeminiAttempt(o, last) ==
  IF o.kind = "text"
  THEN Break(IF o.reason = "recitation" THEN CopyrightPlaceholder ELSE Strip(o.text),
             TRUE)
  ELSE IF o.kind = "no_parts"
  THEN IF o.reason = "quota" THEN Return(FATAL_QUOTA_ERROR_SENTINEL)
       ELSE IF o.reason = "recitation" THEN Break(CopyrightPlaceholder, TRUE)
       ELSE Break(ApiPlaceholder(<<"L","L","M","_","B","L","O","C","K","E","D","_","N","O","_","P","A",
    "R","T","S">>, "gemini",
                                 <<","," ","R","e","a","s","o","n",":"," ">>), FALSE)
  ELSE LastOr(last, ApiPlaceholder(<<"L","L","M","_","A","P","I","_","T","E","M","P","_","E","R","R","O",
    "R","_","M","A","X","_","R","E","T","R","I","E","S">>, "gemini",
                                   <<","," ","E","x","c","e","p","t","i","o","n">>))

\* stage2llm_async.py lines 520-594
AsyncClaudeAttempt(o, last) ==
  IF o.kind = "text" THEN Break(Strip(o.text), TRUE)
  ELSE IF o.kind = "empty"
  THEN Break(ApiPlaceholder(<<"L","L","M","_","E","M","P","T","Y","_","C","O","N","T","E","N","T",
    "_","U","N","E","X","P","E","C","T","E","D">>, "claude", <<>>), FALSE)
  ELSE IF o.kind = "APIConnectionError"
  THEN LastOr(last, ApiPlaceholder(<<"L","L","M","_","A","P","I","_","T","E","M","P","_","E","R","R","O",
    "R","_","M","A","X","_","R","E","T","R","I","E","S">>, "claude",
                                   <<","," ","A","P","I","C","o","n","n","e","c","t","i","o","n","E","r",
    "r","o","r">>))
  ELSE IF o.kind = "RateLimitError"
  THEN IF last THEN Return(FATAL_QUOTA_ERROR_SENTINEL) ELSE Continue
  ELSE IF o.kind = "APIStatusError"
  THEN IF o.reason = "safety" THEN Break(CopyrightPlaceholder, TRUE)
       ELSE LastOr(last, ApiPlaceholder(<<"L","L","M","_","A","P","I","_","S","T","A","T","U","S","_","E","R",
    "R","O","R","_","M","A","X","_","R","E","T","R","I","E","S">>,
                                        "claude", <<","," ","5","0","0">>))
  ELSE IF o.kind = "AuthenticationError" THEN Return(FATAL_QUOTA_ERROR_SENTINEL)
  ELSE LastOr(last, ApiPlaceholder(<<"L","L","M","_","A","P","I","_","E","R","R","O","R","_","M","A","X",
    "_","R","E","T","R","I","E","S">>, "claude",
                                   <<","," ","E","x","c","e","p","t","i","o","n">>))

\* stage2llm.py lines 198-230
SyncAttempt(o, last) ==
  IF o.kind = "text" THEN Break(Strip(o.text), FALSE)
  ELSE IF o.kind = "no_parts" /\ o.reason # ""
  THEN Break(<<"/","/"," ","L","L","M","_","B","L","O","C","K","E","D","_","O","R",
    "_","E","M","P","T","Y","_","R","E","S","P","O","N","S","E"," ","(",
    "R","e","a","s","o","n",":"," ",")"," ","F","O","R","_","S","O","U",
    "R","C","E",":"," ">>
             \o source_sentence_text, FALSE)
  ELSE IF o.kind = "Exception" /\ o.reason # "quota"
  THEN LastOr(last, <<"/","/"," ","L","L","M","_","A","P","I","_","E","R","R","O","R","_",
    "M","A","X","_","R","E","T","R","I","E","S","_","F","O","R","_","S",
    "O","U","R","C","E",":"," ">>
                    \o source_sentence_text)
  ELSE Continue

\* stage2llm_async.py lines 603-605: the END_SENTENCE lines are taken out
NotEndSentenceLine(line) == Strip(line) # T_END_SENTENCE
WithoutEndSentenceLines(raw) ==
  IF Contains(raw, T_END_SENTENCE)
  THEN Strip(Join(SelectSeq(splitlines(raw), NotEndSentenceLine), NL))
  ELSE raw

\* lines 612-623: the debug lines, and the lines kept for the block: every
\* other line from the first content marker on, and the lines before it that
\* are no comment
StartsContent(stripped_line) ==
  \E m \in {M_AdvS, M_SimS, M_SimE, M_CHAPTER_MARKER_DIRECT} :
     StartsWith(stripped_line, m)
RECURSIVE SplitDebugLines(_, _, _, _)
SplitDebugLines(lines, seen, debug, block) ==
  IF lines = <<>> THEN [debug |-> debug, block |-> block]
  ELSE LET line_content == Head(lines)
           stripped_line == Strip(line_content)
           seen_now == seen \/ StartsContent(stripped_line)
       IN  IF StartsWith(stripped_line, T_DEBUG)
           THEN SplitDebugLines(Tail(lines), seen_now,
                                Append(debug, line_content), block)
           ELSE IF seen_now \/ ~StartsWith(stripped_line, T_COMMENT)
           THEN SplitDebugLines(Tail(lines), seen_now, debug,
                                Append(block, line_content))
           ELSE SplitDebugLines(Tail(lines), seen_now, debug, block)

\* lines 607-633: the text that is validated
DebugFiltered(raw, parts) ==
  IF parts.block = <<>> /\ parts.debug # <<>> THEN Join(parts.debug, NL)
  ELSE IF parts.block # <<>> THEN Strip(Join(parts.block, NL))
  ELSE raw
raw_output_for_validation(raw) ==
  IF Contains(raw, T_DEBUG)
  THEN DebugFiltered(raw, SplitDebugLines(splitlines(raw), FALSE, <<>>, <<>>))
  ELSE raw

\* lines 596-605: the text of the API cycle after the API loop
raw_llm_output_core_from_api(raw, flag, provider) ==
  WithoutEndSentenceLines(
    IF ~flag /\ ~Truthy(raw)
    THEN ApiPlaceholder(<<"L","L","M","_","N","O","_","O","U","T","P","U","T","_","A","F","T",
    "E","R","_","A","P","I","_","R","E","T","R","I","E","S">>, provider, <<>>)
    ELSE raw)

\* The IDs a for loop over s_segment_ids_set meets when the text is validated.
SegmentIdsOf(text) == SimSSegmentsPhase(splitlines(text)).set
\* validate_llm_block(text) returns the empty list
Accepts(text) ==
  \E iter \in Orderings(SegmentIdsOf(text)) : validate_llm_block(text, iter) = <<>>

\* What follows the validation: return a value, or go on with the next
\* validation attempt.
Returns(value) == [ret |-> TRUE, value |-> value]
Retry == [ret |-> FALSE, value |-> None]

\* The asynchronous function returns the text it did not accept when the
\* attempts are used up.
AsyncAfterValidationKeepsLast(text, ok, last, copyright, provider) ==
  IF ok \/ last THEN Returns(text) ELSE Retry

\* stage2llm_async.py lines 635-654
AsyncAfterValidation(text, ok, last, copyright, provider) ==
  IF ok THEN Returns(text)
  ELSE IF ~last THEN Retry
  ELSE IF copyright
  THEN Returns(ModelPlaceholder(provider,
                 <<"C","O","P","Y","R","I","G","H","T","_","V","A","L","I","D","A","T",
    "I","O","N","_","F","A","I","L","E","D","_","M","A","X","_","R","E",
    "T","R","I","E","S"," ","(","E","r","r","o","r","s",":"," ",")"," ">>,
                 T_FOR_SOURCE))
  ELSE Returns(ModelPlaceholder(provider,
                 <<"V","A","L","I","D","A","T","I","O","N","_","F","A","I","L","E","D",
    "_","M","A","X","_","R","E","T","R","I","E","S"," ","(","E","r","r",
    "o","r","s",":"," ",")"," ">>, T_FOR_SOURCE))

\* stage2llm.py lines 241-258
SyncAfterValidation(text, ok, last) ==
  IF ok THEN Returns(text)
  ELSE IF ~last THEN Retry
  ELSE Returns(<<"/","/"," ","L","L","M","_","O","U","T","P","U","T","_","V","A","L",
    "I","D","A","T","I","O","N","_","F","A","I","L","E","D","_","M","A",
    "X","_","R","E","T","R","I","E","S"," ","(","E","r","r","o","r","s",
    ":"," ",")"," ","F","O","R","_","S","O","U","R","C","E",":"," ">>
               \o source_sentence_text)

\* the placeholders of stage2llm.py lines 234 and 261 and of
\* stage2llm_async.py line 656
SyncNoOutput ==
  <<"/","/"," ","L","L","M","_","N","O","_","O","U","T","P","U","T","_",
    "A","F","T","E","R","_","A","P","I","_","R","E","T","R","I","E","S",
    "_","F","O","R","_","S","O","U","R","C","E",":"," ">> \o source_sentence_text
SyncUnexpectedExit ==
  <<"/","/"," ","L","L","M","_","P","R","O","C","E","S","S","I","N","G",
    "_","F","A","I","L","E","D","_","U","N","E","X","P","E","C","T","E",
    "D","L","Y","_","I","N","_","V","A","L","I","D","A","T","I","O","N",
    "_","L","O","O","P","_","F","O","R","_","S","O","U","R","C","E",":",
    " ">>
  \o source_sentence_text
AsyncUnexpectedExit(provider) ==
  ModelPlaceholder(provider, <<"V","A","L","I","D","A","T","I","O","N","_","L","O","O","P","_","U",
    "N","E","X","P","E","C","T","E","D","_","E","X","I","T","_">>, T_FOR_SOURCE)

MaxRetries == 2

\* A call of one of the two functions, at its first statement.
SentenceInit ==
  /\ ValidatorIdle
  /\ BookIdle
  /\ variant \in {"sync", "async"}
  /\ llm_provider \in {"gemini", "claude"}
  /\ variant = "sync" => llm_provider = "gemini"
  /\ max_api_retries \in 0..MaxRetries
  /\ max_validation_retries \in 0..MaxRetries
  /\ validation_attempt = 0
  /\ api_attempt = 0
  /\ raw_llm_output_core = None
  /\ api_call_successful_flag = FALSE
  /\ is_copyright_retry_attempt \in BOOLEAN
  /\ variant = "sync" => is_copyright_retry_attempt = FALSE
  /\ spc = "validation_loop"
  /\ result = None
  /\ validator_calls = <<>>
  /\ accepted = {}

Returning(value) ==
  /\ result' = value
  /\ spc' = "returned"

\* The head of the loop over validation_attempt, and the statement after the
\* loop (stage2llm.py lines 194-196 and 261, stage2llm_async.py lines 435-484
\* and 656).
ValidationLoop ==
  /\ spc = "validation_loop"
  /\ IF validation_attempt < max_validation_retries
     THEN /\ raw_llm_output_core' = None
          /\ api_call_successful_flag' = FALSE
          /\ api_attempt' = 0
          /\ spc' = IF max_api_retries > 0 THEN "api_loop" ELSE "after_api_loop"
          /\ UNCHANGED result
     ELSE /\ Returning(
               IF variant = "sync"
               THEN SyncUnexpectedExit ELSE AsyncUnexpectedExit(llm_provider))
          /\ UNCHANGED <<raw_llm_output_core, api_call_successful_flag, api_attempt>>
  /\ UNCHANGED <<variant, llm_provider, max_api_retries, max_validation_retries,
                 validation_attempt, is_copyright_retry_attempt,
                 validator_calls, accepted>>
  /\ UNCHANGED <<validator_vars, book_vars>>

\* One API attempt ended as r says.
AfterAttempt(r) ==
  /\ IF r.do = "return"
     THEN /\ Returning(r.raw)
          /\ UNCHANGED <<raw_llm_output_core, api_call_successful_flag, api_attempt>>
     ELSE IF r.do = "break"
     THEN /\ raw_llm_output_core' = r.raw
          /\ api_call_successful_flag' = r.flag
          /\ spc' = "after_api_loop"
          /\ UNCHANGED <<result, api_attempt>>
     ELSE /\ api_attempt' = api_attempt + 1
          /\ spc' = IF api_attempt + 1 < max_api_retries
                    THEN "api_loop" ELSE "after_api_loop"
          /\ UNCHANGED <<result, raw_llm_output_core, api_call_successful_flag>>
  /\ UNCHANGED <<variant, llm_provider, max_api_retries, max_validation_retries,
                 validation_attempt, is_copyright_retry_attempt,
                 validator_calls, accepted>>
  /\ UNCHANGED <<validator_vars, book_vars>>

\* stage2llm_async.py lines 485-594: one pass of the loop over api_attempt
AsyncCallLLM ==
  /\ variant = "async"
  /\ spc = "api_loop"
  /\ \/ /\ llm_provider = "gemini"
        /\ \E o \in AsyncGeminiOutcomes :
              AfterAttempt(AsyncGeminiAttempt(o, api_attempt + 1 = max_api_retries))
     \/ /\ llm_provider = "claude"
        /\ \E o \in AsyncClaudeOutcomes :
              AfterAttempt(AsyncClaudeAttempt(o, api_attempt + 1 = max_api_retries))

\* stage2llm.py lines 197-230: one pass of the loop over api_attempt
SyncCallLLM ==
  /\ variant = "sync"
  /\ spc = "api_loop"
  /\ \E o \in SyncOutcomes :
        AfterAttempt(SyncAttempt(o, api_attempt + 1 = max_api_retries))

\* The validator was called on text and the function goes on as r says.
Validated(text, ok, r) ==
  /\ validator_calls' = Append(validator_calls, text)
  /\ accepted' = IF ok THEN accepted \cup {text} ELSE accepted
  /\ IF r.ret
     THEN /\ Returning(r.value)
          /\ UNCHANGED validation_attempt
     ELSE /\ validation_attempt' = validation_attempt + 1
          /\ spc' = "validation_loop"
          /\ UNCHANGED result

\* stage2llm_async.py lines 596-654: the text of the cycle, what is validated
\* of it, the call of the validator, and the return or the next attempt
AsyncValidateOutput(raw, text, ok) ==
  /\ IF raw = FATAL_QUOTA_ERROR_SENTINEL
     THEN /\ Returning(FATAL_QUOTA_ERROR_SENTINEL)
          /\ UNCHANGED <<validator_calls, accepted, validation_attempt,
                         is_copyright_retry_attempt>>
     ELSE /\ Validated(text, ok,
               AsyncAfterValidation(text, ok,
                  ~(validation_attempt + 1 < max_validation_retries),
                  StartsWith(raw, COPYRIGHT_BLOCK_PLACEHOLDER_PREFIX),
                  llm_provider))
          /\ is_copyright_retry_attempt' =
               IF ok THEN is_copyright_retry_attempt
               ELSE StartsWith(raw, COPYRIGHT_BLOCK_PLACEHOLDER_PREFIX)
AsyncValidateText(raw, text) == AsyncValidateOutput(raw, text, Accepts(text))
AsyncValidate ==
  /\ variant = "async"
  /\ spc = "after_api_loop"
  /\ \E raw \in {IF raw_llm_output_core = FATAL_QUOTA_ERROR_SENTINEL
                 THEN raw_llm_output_core
                 ELSE raw_llm_output_core_from_api(raw_llm_output_core,
                         api_call_successful_flag, llm_provider)} :
        AsyncValidateText(raw, raw_output_for_validation(raw))
  /\ UNCHANGED <<variant, llm_provider, max_api_retries, max_validation_retries,
                 api_attempt, raw_llm_output_core, api_call_successful_flag>>
  /\ UNCHANGED <<validator_vars, book_vars>>

\* stage2llm.py lines 233-258
SyncValidateOutput(raw, ok) ==
  Validated(raw, ok,
            SyncAfterValidation(raw, ok,
               ~(validation_attempt + 1 < max_validation_retries)))
SyncValidate ==
  /\ variant = "sync"
  /\ spc = "after_api_loop"
  /\ IF ~Truthy(raw_llm_output_core)
     THEN /\ Returning(SyncNoOutput \o NL \o T_END_SENTENCE \o NL)
          /\ UNCHANGED <<validator_calls, accepted, validation_attempt>>
     ELSE IF StartsWith(raw_llm_output_core, T_LLM_BLOCKED)
     THEN /\ Returning(raw_llm_output_core \o NL \o T_END_SENTENCE \o NL)
          /\ UNCHANGED <<validator_calls, accepted, validation_attempt>>
     ELSE SyncValidateOutput(raw_llm_output_core, Accepts(raw_llm_output_core))
  /\ UNCHANGED <<variant, llm_provider, max_api_retries, max_validation_retries,
                 api_attempt, raw_llm_output_core, api_call_successful_flag,
                 is_copyright_retry_attempt>>
  /\ UNCHANGED <<validator_vars, book_vars>>

SentenceNext ==
  \/ ValidationLoop
  \/ AsyncCallLLM
  \/ SyncCallLLM
  \/ AsyncValidate
  \/ SyncValidate

SentenceSpec == SentenceInit /\ [][SentenceNext]_vars

(***************************************************************************)
(* C28                                                                     *)
(***************************************************************************)
IsPlaceholder(value) == StartsWith(value, T_COMMENT)
Rejected == Range(validator_calls) \ accepted

\* C28: every value returned by process_sentence_with_llm_async and by
\* process_sentence_with_llm is the fatal-quota sentinel, a placeholder that
\* starts with "//", or a text on which validate_llm_block returned the empty
\* list; a text the validator rejected is never returned as a block; and the
\* validator is called at most max_validation_retries times.
C28_ReturnedValue ==
  /\ Len(validator_calls) <= max_validation_retries
  /\ spc = "returned" =>
        \/ result = FATAL_QUOTA_ERROR_SENTINEL
        \/ IsPlaceholder(result)
        \/ result \in accepted /\ result \notin Rejected

\* A call that returns a block the validator accepted after it rejected the
\* output of an earlier attempt.
C28_Witness ==
  /\ spc = "returned"
  /\ result \in accepted
  /\ ~IsPlaceholder(result)
  /\ Len(validator_calls) = max_validation_retries
  /\ validator_calls[1] \in Rejected

(***************************************************************************)
(* process_book_file_async (stage2llm_async.py): the runs of the script on *)
(* one book.  A run reads the output file of the run before, decides where *)
(* to start, asks process_sentence_with_llm_async for a block per sentence *)
(* and writes the file with a status marker as its last block.  The runs   *)
(* considered are started without --force and without --limit-items.       *)
(***************************************************************************)
COMPLETION_MARKER_TEXT == <<"/","/"," ","-","-","-"," ","B","O","O","K","_","F","U","L","L","Y",
    "_","P","R","O","C","E","S","S","E","D"," ","-","-","-"," ","/","/">>
RESUME_MARKER_PREFIX == <<"/","/"," ","-","-","-"," ","P","A","R","T","I","A","L","_","F","I",
    "L","E","_","R","E","S","U","M","E","_","N","E","X","T","_","I","T",
    "E","M","_","I","N","D","E","X",":"," ">>
OUTPUT_LIMITED_MARKER_PREFIX == <<"/","/"," ","-","-","-"," ","O","U","T","P","U","T","_","L","I","M",
    "I","T","E","D","_","T","O","_","F","I","R","S","T","_">>
T_MARKER_END == <<"-","-","-"," ","/","/">>
T_ITEMS == <<"_","I","T","E","M","S">>
NO_PROCESSABLE_ITEMS == <<"/","/"," ","N","O","_","P","R","O","C","E","S","S","A","B","L","E",
    "_","I","T","E","M","S","_","I","N","_","S","O","U","R","C","E","_",
    "F","I","L","E">>
CHAPTER_TEXT == <<"U","n","o">>

\* str.endswith(p)
EndsWith(s, p) == Len(s) >= Len(p) /\ SubSeq(s, Len(s) - Len(p) + 1, Len(s)) = p

\* the indices at which p occurs in s
Occurrences(s, p) ==
  {i \in 1..(Len(s) - Len(p) + 1) : SubSeq(s, i, i + Len(p) - 1) = p}

\* str.count(p): the occurrences that do not overlap, from the left
RECURSIVE CountText(_, _)
CountText(s, p) ==
  IF Occurrences(s, p) = {} THEN 0
  ELSE 1 + CountText(Drop(s, MinOf(Occurrences(s, p)) + Len(p) - 1), p)

\* re.findall("(.*?END_SENTENCE\n)", s, re.DOTALL): the pieces of s that end
\* with the next "END_SENTENCE\n", one after the other; what follows the last
\* of them is in no piece
RECURSIVE FindAllBlocks(_)
FindAllBlocks(s) ==
  IF Occurrences(s, T_END_SENTENCE \o NL) = {} THEN <<>>
  ELSE <<Take(s, MinOf(Occurrences(s, T_END_SENTENCE \o NL)) + Len(T_END_SENTENCE))>>
       \o FindAllBlocks(Drop(s, MinOf(Occurrences(s, T_END_SENTENCE \o NL))
                                + Len(T_END_SENTENCE)))

\* int(s) for a text of digits; -1 where int raises ValueError
RECURSIVE DigitsValue(_)
DigitsValue(s) ==
  IF s = <<>> THEN 0
  ELSE 10 * DigitsValue(SubSeq(s, 1, Len(s) - 1))
       + (CHOOSE d \in 0..9 : Decimal(d) = <<s[Len(s)]>>)
IntOf(s) ==
  IF s # <<>> /\ \A i \in 1..Len(s) : IsDigit(s[i]) THEN DigitsValue(s) ELSE -1

\* the text up to the first occurrence of p: s.split(p)[0]
BeforeText(s, p) ==
  IF Occurrences(s, p) = {} THEN s ELSE Take(s, MinOf(Occurrences(s, p)) - 1)

\* lines 689-698: the line before the END_SENTENCE line of the last block
penultimate_line_of_last_block(lines_in_last_block) ==
  IF lines_in_last_block = <<>> THEN <<>>
  ELSE IF Strip(lines_in_last_block[Len(lines_in_last_block)]) = Strip(T_END_SENTENCE)
  THEN IF Len(lines_in_last_block) >= 2
       THEN Strip(lines_in_last_block[Len(lines_in_last_block) - 1])
       ELSE <<>>
  ELSE Strip(lines_in_last_block[1])

\* What the run takes from the existing file.
FromStart == [skip |-> FALSE, start |-> 0, resuming |-> FALSE, existing |-> <<>>]
Skip == [FromStart EXCEPT !.skip = TRUE]
ResumeAt(idx, blocks) ==
  IF idx < 0 THEN FromStart
  ELSE [skip |-> FALSE, start |-> idx, resuming |-> TRUE, existing |-> blocks]
AllButLast(s) == SubSeq(s, 1, Len(s) - 1)

\* lines 701-727, with args.limit_items None
MarkerDecision(pen, raw_blocks_with_delimiters) ==
  IF pen = COMPLETION_MARKER_TEXT THEN Skip
  ELSE IF StartsWith(pen, RESUME_MARKER_PREFIX) /\ EndsWith(pen, T_MARKER_END)
  THEN ResumeAt(IntOf(BeforeText(Drop(pen, Len(RESUME_MARKER_PREFIX)), <<" ">>)),
                AllButLast(raw_blocks_with_delimiters))
  ELSE IF StartsWith(pen, OUTPUT_LIMITED_MARKER_PREFIX) /\ EndsWith(pen, T_MARKER_END)
  THEN IF IntOf(BeforeText(Drop(pen, Len(OUTPUT_LIMITED_MARKER_PREFIX)), T_ITEMS)) < 0
       THEN FromStart
       ELSE ResumeAt(Len(raw_blocks_with_delimiters) - 1,
                     AllButLast(raw_blocks_with_delimiters))
  ELSE FromStart

\* lines 684-700
BlocksDecision(raw_blocks_with_delimiters) ==
  IF raw_blocks_with_delimiters = <<>> THEN FromStart
  ELSE MarkerDecision(
         penultimate_line_of_last_block(
           splitlines(Strip(raw_blocks_with_delimiters[Len(raw_blocks_with_delimiters)]))),
         raw_blocks_with_delimiters)

\* The text is read back without taking the white space off its ends.
ReadExistingUnstripped(file) ==
  IF file = None THEN FromStart ELSE BlocksDecision(FindAllBlocks(file))

\* lines 673-731: what is read back from the output file
ReadExisting(file) ==
  IF file = None THEN FromStart ELSE BlocksDecision(FindAllBlocks(Strip(file)))

Block(content) == content \o NL \o T_END_SENTENCE \o NL
CompletionBlock == Block(COMPLETION_MARKER_TEXT)
ResumeBlock(idx) == Block(RESUME_MARKER_PREFIX \o Decimal(idx) \o <<" ">> \o T_MARKER_END)

\* lines 762-771 and 783-792: the file is written again with the blocks that
\* were kept, and the completion marker when they are all there
Finalized(existing, items) ==
  Flatten(existing)
  \o (IF CountText(Flatten(existing), T_END_SENTENCE) >= Len(items)
      THEN CompletionBlock ELSE <<>>)

\* lines 775-777: the index after the last item of this run
end_idx_for_slice_in_all_items(items, start, existing) ==
  Smaller(Len(items),
          start + (Len(items) - CountText(Flatten(existing), T_END_SENTENCE)))

\* lines 847-868: the status block that follows the blocks in the file
StatusBlock(content, items, limit_hit, first_failed) ==
  IF limit_hit
  THEN IF first_failed # -1 /\ first_failed < Len(items)
       THEN ResumeBlock(first_failed) ELSE <<>>
  ELSE IF CountText(content, T_END_SENTENCE) >= Len(items) THEN CompletionBlock
  ELSE IF CountText(content, T_END_SENTENCE) > 0
  THEN ResumeBlock(CountText(content, T_END_SENTENCE))
  ELSE <<>>

\* What process_sentence_with_llm_async returns for a sentence: a block it
\* validated, a placeholder, or the sentinel.
ItemResults ==
  { ValidLLMBlock,
    AsyncAfterValidation(InvalidLLMBlock, FALSE, TRUE, FALSE, "gemini").value,
    FATAL_QUOTA_ERROR_SENTINEL }

MaxItems == 3
MaxRuns == 3

ItemLists == UNION {[1..n -> {"marker", "sentence"}] : n \in 0..MaxItems}

\* what the run that ended wrote: the status marker and the blocks before it
Wrote(marker, index, blocks) == [marker |-> marker, index |-> index, blocks |-> blocks]
WroteStatus(blocks, status) ==
  IF status = CompletionBlock THEN Wrote("complete", 0, blocks)
  ELSE IF ~StartsWith(status, RESUME_MARKER_PREFIX) THEN Wrote("none", 0, blocks)
  ELSE Wrote("resume",
             IntOf(BeforeText(Drop(status, Len(RESUME_MARKER_PREFIX)), <<" ">>)),
             blocks)

\* The first run on a book: no output file yet.
BookInit ==
  /\ ValidatorIdle
  /\ SentenceIdle
  /\ all_items \in ItemLists
  /\ output_file = None
  /\ bpc = "start"
  /\ start_item_idx = 0
  /\ is_resuming = FALSE
  /\ existing_content_blocks = <<>>
  /\ run_slice_idx = 0
  /\ newly_processed_blocks_this_run = <<>>
  /\ daily_limit_hit_for_this_book = FALSE
  /\ first_failed_item_original_idx = -1
  /\ llm_calls_made_this_run = 0
  /\ was_skipped = FALSE
  /\ runs = 1
  /\ written = NothingWritten

RunEnds(skipped) ==
  /\ bpc' = "ended"
  /\ was_skipped' = skipped

Writes(blocks, status) ==
  /\ output_file' = Flatten(blocks) \o status
  /\ written' = WroteStatus(blocks, status)

\* lines 667-793: the existing file is read; the run ends when the book is
\* complete, when there is no item, and when no item is left for it
StartAs(d) ==
  /\ start_item_idx' = d.start
  /\ is_resuming' = d.resuming
  /\ existing_content_blocks' = d.existing
  /\ IF d.skip
     THEN /\ RunEnds(TRUE)
          /\ UNCHANGED <<output_file, written>>
     ELSE IF all_items = <<>>
     THEN /\ RunEnds(FALSE)
          /\ Writes(<<>>, Block(NO_PROCESSABLE_ITEMS))
     ELSE IF d.start >= end_idx_for_slice_in_all_items(all_items, d.start, d.existing)
     THEN /\ RunEnds(FALSE)
          /\ IF d.resuming
             THEN /\ output_file' = Finalized(d.existing, all_items)
                  /\ written' = WroteStatus(d.existing,
                                   Drop(Finalized(d.existing, all_items),
                                        Len(Flatten(d.existing))))
             ELSE UNCHANGED <<output_file, written>>
     ELSE /\ bpc' = "items"
          /\ UNCHANGED <<was_skipped, output_file, written>>
BookStart ==
  /\ bpc = "start"
  /\ StartAs(ReadExisting(output_file))
  /\ UNCHANGED <<all_items, run_slice_idx, newly_processed_blocks_this_run,
                 daily_limit_hit_for_this_book, first_failed_item_original_idx,
                 llm_calls_made_this_run, runs>>
  /\ UNCHANGED <<validator_vars, sentence_vars>>

\* lines 799-845: one pass of the loop over the items of this run
ItemDone(content, failed) ==
  /\ newly_processed_blocks_this_run' =
       Append(newly_processed_blocks_this_run, Block(Strip(content)))
  /\ daily_limit_hit_for_this_book' = failed
  /\ first_failed_item_original_idx' =
       IF failed THEN start_item_idx + run_slice_idx ELSE -1
  /\ run_slice_idx' = run_slice_idx + 1
  /\ bpc' = IF failed \/ start_item_idx + run_slice_idx + 1
                         >= end_idx_for_slice_in_all_items(all_items, start_item_idx,
                                                           existing_content_blocks)
            THEN "write" ELSE "items"
ProcessItem ==
  /\ bpc = "items"
  /\ \/ /\ all_items[start_item_idx + run_slice_idx + 1] = "marker"
        /\ ItemDone(M_CHAPTER_MARKER_DIRECT \o <<" ">> \o CHAPTER_TEXT, FALSE)
        /\ UNCHANGED llm_calls_made_this_run
     \/ /\ all_items[start_item_idx + run_slice_idx + 1] = "sentence"
        /\ \E item_result_str \in ItemResults :
              ItemDone(item_result_str, item_result_str = FATAL_QUOTA_ERROR_SENTINEL)
        /\ llm_calls_made_this_run' = llm_calls_made_this_run + 1
  /\ UNCHANGED <<all_items, output_file, start_item_idx, is_resuming,
                 existing_content_blocks, was_skipped, runs, written>>
  /\ UNCHANGED <<validator_vars, sentence_vars>>

\* lines 847-880: the file is written, with its status block
WriteBlocks(blocks) ==
  Writes(blocks,
         StatusBlock(Flatten(blocks), all_items, daily_limit_hit_for_this_book,
                     first_failed_item_original_idx))
WriteOutput ==
  /\ bpc = "write"
  /\ WriteBlocks(existing_content_blocks \o newly_processed_blocks_this_run)
  /\ RunEnds(FALSE)
  /\ UNCHANGED <<all_items, start_item_idx, is_resuming, existing_content_blocks,
                 run_slice_idx, newly_processed_blocks_this_run,
                 daily_limit_hit_for_this_book, first_failed_item_original_idx,
                 llm_calls_made_this_run, runs>>
  /\ UNCHANGED <<validator_vars, sentence_vars>>

\* The script is run again on the book: main_async calls
\* process_book_file_async, whose locals start as lines 669-671 and 794-797
\* set them.
NextRun ==
  /\ bpc = "ended"
  /\ runs < MaxRuns
  /\ runs' = runs + 1
  /\ bpc' = "start"
  /\ start_item_idx' = 0
  /\ is_resuming' = FALSE
  /\ existing_content_blocks' = <<>>
  /\ run_slice_idx' = 0
  /\ newly_processed_blocks_this_run' = <<>>
  /\ daily_limit_hit_for_this_book' = FALSE
  /\ first_failed_item_original_idx' = -1
  /\ llm_calls_made_this_run' = 0
  /\ was_skipped' = FALSE
  /\ UNCHANGED <<all_items, output_file, written>>
  /\ UNCHANGED <<validator_vars, sentence_vars>>

BookNext ==
  \/ BookStart
  \/ ProcessItem
  \/ WriteOutput
  \/ NextRun

BookSpec == BookInit /\ [][BookNext]_vars

(***************************************************************************)
(* C29                                                                     *)
(***************************************************************************)
\* The step that reads the file back takes from it what the run before wrote.
MarkerReadBack ==
  /\ (bpc = "start" /\ written.marker = "complete")
        => (bpc' = "ended" /\ was_skipped' /\ llm_calls_made_this_run' = 0)
  /\ (bpc = "start" /\ written.marker = "resume")
        => /\ is_resuming'
           /\ start_item_idx' = written.index
           /\ existing_content_blocks' = written.blocks

\* C29: the status marker a run writes as the last block of the output file
\* is the one the next run reads back: after the completion marker the next
\* run skips the book without an LLM call, and after a resume marker for item
\* i it keeps the blocks written and starts at item i.
C29_MarkerReadBack == [][MarkerReadBack]_vars
====
